---- MODULE Spec2Model ----
(***************************************************************************)
(* Scoring and alignment engine of the Singapore political compass:        *)
(* src/app/data/questions.ts (question bank, getAxisDirection,             *)
(* calculateScores) and src/app/data/parties.ts (calculatePartyPosition,   *)
(* the party-position cache, calculatePartyDistances,                      *)
(* getTopAlignedParties).                                                  *)
(*                                                                         *)
(* Numbers.  The code computes in IEEE doubles.  The model computes in     *)
(* exact arithmetic:                                                       *)
(*   - a rational is a pair <<n, d>> with d > 0 in lowest terms;           *)
(*   - Math.hypot(x, y) is kept as the rational x^2 + y^2 (a "surd": the   *)
(*     non-negative real whose square is that rational), since every use   *)
(*     the code makes of a hypot is a comparison, a maximum or a ratio,    *)
(*     all of which are decided on the squares;                            *)
(*   - products that do not fit TLC's 32-bit integers are compared as      *)
(*     digit sequences (Big...).                                           *)
(***************************************************************************)
EXTENDS Integers, Sequences, FiniteSets, TLC

VARIABLES
  bank,                 \* the module-level `questions` array of questions.ts
  SCORE_MULTIPLIER,     \* axes.ts: the configured multiplier (a rational)
  question,             \* argument of the getAxisDirection call under test
  axisDirection,        \* its return value, Null before the call
  answers,              \* argument of calculateScores: Record<number, Answer>
  results,              \* QuizResults returned by calculateScores (page.tsx keeps it
                        \* as Home's results), Null before
  partyPositionsCache,  \* parties.ts _partyPositionsCache, Null until filled
  userPosition,         \* the (x, y) handed to the ranking functions
  thresholdArg,         \* the threshold handed to getTopAlignedParties
  partyDistances,       \* result of calculatePartyDistances, Null before
  topAligned,           \* result of getTopAlignedParties, Null before
  closestParty,         \* result of getClosestParty, Null before
  positionRuns,         \* per party, how often calculatePartyPosition has run
  partyPosition,        \* result of the last getPartyPosition, Null before
  meanPosition,         \* result of getPartyMeanPosition, Null before
  party1Id,             \* the two parties handed to the comparison functions
  party2Id,
  limitArg,             \* the limit handed to getKeyDifferences, getCommonGround
  keyDifferences,       \* result of getKeyDifferences, Null before
  commonGround,         \* result of getCommonGround, Null before
  scoreImpact,          \* result of calculateScoreImpact, Null before
  state,                \* Quiz.tsx: the Quiz component's state
  appState,             \* page.tsx: which screen Home renders
  advances,             \* answers and skips since the quiz began, -1 once Previous was used
  lastEvent,            \* the handler that ran last, "none" before any
  rateLimitMap,         \* route.ts rateLimitMap: ip -> {count, resetTime}
  now,                  \* Date.now() on the server, in milliseconds
  windowAccepted,       \* per ip, the requests accepted since its window began
  response,             \* what POST answered last, Null before any request
  apiKey,               \* GOOGLE_AI_API_KEY of the environment, Null if unset
  explanations,         \* DetailedReview.tsx explanations: key -> PartyExplanation
  fetchState,           \* per key, where its fetchExplanation call stands
  incoming,             \* per key, the events of the response not yet read
  fullExplanation,      \* per key, fetchExplanation's local fullExplanation
  fetches               \* per key, how many fetches have been started

\* what the position lookups of parties.ts leave behind, the cache apart
cacheVars == <<positionRuns, partyPosition, meanPosition>>

\* arguments and results of the comparison functions
compareVars == <<party1Id, party2Id, limitArg, keyDifferences, commonGround, scoreImpact>>

\* the quiz on the page: the Quiz component's state, Home's screen, and the
\* record of what the respondent did
pageVars == <<state, appState, advances, lastEvent>>

\* the explain-stance route: its rate limiter, clock, environment and last answer
serverVars == <<rateLimitMap, now, windowAccepted, response, apiKey>>

\* the explanations of the detailed review and the fetches under way
reviewVars == <<explanations, fetchState, incoming, fullExplanation, fetches>>

vars == <<bank, SCORE_MULTIPLIER, question, axisDirection, answers, results,
          partyPositionsCache, userPosition, thresholdArg, partyDistances, topAligned,
          closestParty, cacheVars, compareVars, pageVars, serverVars, reviewVars>>

\* the arguments and reference data, which no operation changes
inputs == <<bank, SCORE_MULTIPLIER, question, answers, userPosition, thresholdArg>>

\* A value that may be null: Null, or Some(v) whose content is Val(Some(v)).
Null == <<>>
Some(v) == <<v>>
Val(o) == o[1]

\* ------------------------------------------------------------------------
\* Exact rational arithmetic (the values of the code's `number`s)
\* ------------------------------------------------------------------------
Abs(i) == IF i < 0 THEN -i ELSE i

RECURSIVE GCD(_, _)
GCD(a, b) == IF b = 0 THEN a ELSE GCD(b, a % b)

Rat(n, d) ==
  LET g == GCD(Abs(n), Abs(d))
      s == IF d < 0 THEN -1 ELSE 1
  IN  <<(s * n) \div g, (s * d) \div g>>

Int2R(i) == <<i, 1>>
RZero == <<0, 1>>
LCM(a, b) == (a \div GCD(a, b)) * b

RAdd(p, q) ==
  IF p[2] = q[2] THEN Rat(p[1] + q[1], p[2])
  ELSE LET l == LCM(p[2], q[2])
       IN  Rat(p[1] * (l \div p[2]) + q[1] * (l \div q[2]), l)
RNeg(p) == <<-p[1], p[2]>>
RSub(p, q) == RAdd(p, RNeg(q))
RMul(p, q) ==
  IF p[1] = 0 \/ q[1] = 0 THEN RZero
  ELSE LET a == Rat(p[1], q[2])
           b == Rat(q[1], p[2])
       IN  <<a[1] * b[1], a[2] * b[2]>>
RDiv(p, q) ==
  IF q[1] < 0 THEN RMul(p, <<-q[2], -q[1]>>) ELSE RMul(p, <<q[2], q[1]>>)
RLt(p, q) ==
  LET l == LCM(p[2], q[2])
  IN  p[1] * (l \div p[2]) < q[1] * (l \div q[2])
RLe(p, q) == ~RLt(q, p)
RAbs(p) == <<Abs(p[1]), p[2]>>
RMax(p, q) == IF RLt(p, q) THEN q ELSE p
RMin(p, q) == IF RLt(q, p) THEN q ELSE p

\* ------------------------------------------------------------------------
\* Natural numbers beyond 32 bits: little-endian digit sequences, base BigBase,
\* without leading zero digits (zero is the empty sequence)
\* ------------------------------------------------------------------------
BigBase == 1000

RECURSIVE BigOf(_)
BigOf(n) == IF n = 0 THEN <<>> ELSE <<n % BigBase>> \o BigOf(n \div BigBase)

BigDigit(a, i) == IF i >= 1 /\ i <= Len(a) THEN a[i] ELSE 0

\* drops the leading zero digits
BigTrim(a) ==
  LET nonZero == {i \in 1..Len(a) : a[i] # 0}
  IN  IF nonZero = {} THEN <<>>
      ELSE SubSeq(a, 1, CHOOSE i \in nonZero : \A j \in nonZero : j <= i)

\* one round of carries (borrows, for a negative column) over all columns at once
BigCarryStep(c) ==
  SubSeq([k \in 1..(Len(c) + 1) |->
            (IF k <= Len(c) THEN c[k] % BigBase ELSE 0)
              + (IF k > 1 THEN c[k - 1] \div BigBase ELSE 0)],
         1, Len(c) + 1)

\* columns of any size to digits below the base
RECURSIVE BigCarry(_)
BigCarry(c) ==
  IF \A k \in 1..Len(c) : c[k] >= 0 /\ c[k] < BigBase THEN BigTrim(c)
  ELSE BigCarry(BigCarryStep(c))

BigLonger(a, b) == IF Len(a) >= Len(b) THEN Len(a) ELSE Len(b)

BigAdd(a, b) ==
  BigCarry(SubSeq([k \in 1..BigLonger(a, b) |-> BigDigit(a, k) + BigDigit(b, k)],
                  1, BigLonger(a, b)))

\* a - b, for a >= b
BigSub(a, b) ==
  BigCarry(SubSeq([k \in 1..BigLonger(a, b) |-> BigDigit(a, k) - BigDigit(b, k)],
                  1, BigLonger(a, b)))

\* the sum of a[i] * b[k + 1 - i] over i in lo..hi
RECURSIVE BigColumn(_, _, _, _, _)
BigColumn(a, b, k, lo, hi) ==
  IF lo > hi THEN 0
  ELSE IF lo = hi THEN a[lo] * b[k + 1 - lo]
  ELSE LET mid == (lo + hi) \div 2
       IN  BigColumn(a, b, k, lo, mid) + BigColumn(a, b, k, mid + 1, hi)

BigMul(a, b) ==
  IF a = <<>> \/ b = <<>> THEN <<>>
  ELSE LET cols == Len(a) + Len(b) - 1
       IN  BigCarry(SubSeq([k \in 1..cols |->
                              BigColumn(a, b, k,
                                        IF k > Len(b) THEN k + 1 - Len(b) ELSE 1,
                                        IF k < Len(a) THEN k ELSE Len(a))],
                           1, cols))

BigLt(a, b) ==
  IF Len(a) # Len(b) THEN Len(a) < Len(b)
  ELSE LET differ == {i \in 1..Len(a) : a[i] # b[i]}
       IN  IF differ = {} THEN FALSE
           ELSE LET top == CHOOSE i \in differ : \A j \in differ : j <= i
                IN  a[top] < b[top]

BigLe(a, b) == ~BigLt(b, a)

\* ------------------------------------------------------------------------
\* Reference data
\* ------------------------------------------------------------------------
PartyIds == <<"pap", "wp", "psp", "sdp">>
Parties == {PartyIds[i] : i \in 1..Len(PartyIds)}

QuestionCategories ==
  {"taxation", "housing", "healthcare", "employment", "welfare",
   "governance", "civil_liberties", "immigration"}

Answer == -2..2

Q(id, category, axis, weight, pap, wp, psp, sdp) ==
  [id |-> id, category |-> category, axis |-> axis, weight |-> weight,
   partyScores |-> [pap |-> pap, wp |-> wp, psp |-> psp, sdp |-> sdp]]

\* The 40 questions of the shipped bank (text omitted).
questions ==
  <<
    Q(1, "taxation", "economic", 3, -2, 2, 2, 2),
    Q(2, "taxation", "economic", 3, 2, -1, -1, -2),
    Q(3, "taxation", "economic", 2, -1, 1, 2, 2),
    Q(4, "taxation", "economic", 2, -1, 2, 1, 2),
    Q(5, "taxation", "economic", 2, 2, -1, -1, -2),
    Q(6, "housing", "economic", 3, -2, 1, 2, 2),
    Q(7, "housing", "economic", 2, 2, 0, -1, -1),
    Q(8, "housing", "economic", 2, -1, 2, 1, 2),
    Q(9, "housing", "economic", 2, 1, -2, -2, -2),
    Q(10, "housing", "economic", 2, -2, 1, 2, 2),
    Q(11, "healthcare", "economic", 3, -2, 1, 1, 2),
    Q(12, "healthcare", "economic", 2, 2, -1, -1, -2),
    Q(13, "healthcare", "economic", 2, 0, 1, 2, 2),
    Q(14, "healthcare", "economic", 2, 2, -1, -1, -2),
    Q(15, "healthcare", "economic", 2, 1, 2, 2, 2),
    Q(16, "employment", "economic", 3, -2, 1, 2, 2),
    Q(17, "employment", "economic", 2, 2, 0, -1, -1),
    Q(18, "employment", "economic", 2, 0, 2, 1, 2),
    Q(19, "employment", "economic", 2, -1, 2, 2, 1),
    Q(20, "employment", "economic", 2, 2, -1, -2, -1),
    Q(21, "welfare", "economic", 2, 2, 0, 0, -1),
    Q(22, "welfare", "economic", 2, -2, 1, 1, 2),
    Q(23, "welfare", "economic", 2, 2, -1, -1, -2),
    Q(24, "welfare", "economic", 2, 2, -1, -1, -2),
    Q(25, "welfare", "economic", 2, -1, 1, 1, 2),
    Q(26, "governance", "social", 2, -1, 2, 2, 2),
    Q(27, "governance", "social", 2, -1, 2, 2, 2),
    Q(28, "governance", "social", 2, 2, -1, -1, -2),
    Q(29, "governance", "social", 2, -1, 1, 2, 2),
    Q(30, "governance", "social", 2, -2, 1, 2, 2),
    Q(31, "civil_liberties", "social", 3, -2, 1, 2, 2),
    Q(32, "civil_liberties", "social", 2, 2, 0, -1, -2),
    Q(33, "civil_liberties", "social", 2, -2, 1, 1, 2),
    Q(34, "civil_liberties", "social", 2, 2, 0, 0, -2),
    Q(35, "civil_liberties", "social", 2, 2, 0, -1, -2),
    Q(36, "immigration", "social", 2, -2, 1, 2, 1),
    Q(37, "immigration", "social", 2, -1, 1, 2, 1),
    Q(38, "immigration", "social", 2, 2, -1, -2, -1),
    Q(39, "immigration", "social", 2, 2, 1, 0, -1),
    Q(40, "immigration", "social", 1, 0, 1, -1, 2)
  >>

AXIS_RANGE == 10

\* ------------------------------------------------------------------------
\* questions.ts
\* ------------------------------------------------------------------------
clamp_NoUpperBound(value, min, max) == RMax(min, value)

clamp(value, min, max) == RMax(min, RMin(max, value))

\* The sign of `difference`, or 0 when Math.abs(difference) < deadZone.
DirectionOf(difference, deadZone) ==
  IF RLt(RAbs(difference), deadZone) THEN 0
  ELSE IF RLt(RZero, difference) THEN 1 ELSE -1

getAxisDirection_WideDeadZone(q) ==
  LET governmentSupport == Int2R(q.partyScores.pap)
      oppositionSupport ==
        Rat(q.partyScores.wp + q.partyScores.psp + q.partyScores.sdp, 3)
  IN  DirectionOf(RSub(governmentSupport, oppositionSupport), Rat(1, 2))

getAxisDirection(q) ==
  LET governmentSupport == Int2R(q.partyScores.pap)
      oppositionSupport ==
        Rat(q.partyScores.wp + q.partyScores.psp + q.partyScores.sdp, 3)
  IN  DirectionOf(RSub(governmentSupport, oppositionSupport), Rat(1, 10))

\* The sum of a sequence of integers: one unit per pair <<i, j>> with
\* j <= terms[i], less one per pair with j <= -terms[i].
IntSum(terms) ==
  LET n == Len(terms)
      sizes == {Abs(terms[i]) : i \in 1..n}
      top == IF n = 0 THEN 0 ELSE CHOOSE m \in sizes : \A k \in sizes : k <= m
      units == (1..n) \X (1..top)
  IN  Cardinality({u \in units : u[2] <= terms[u[1]]})
        - Cardinality({u \in units : u[2] <= -terms[u[1]]})

\* Object.entries(answers): integer-like keys come out in ascending order.
SortedKeys(S) ==
  SubSeq([i \in 1..Cardinality(S) |->
            CHOOSE x \in S : Cardinality({y \in S : y < x}) = i - 1],
         1, Cardinality(S))

ObjectEntries(a) ==
  LET ks == SortedKeys(DOMAIN a)
  IN  SubSeq([i \in 1..Len(ks) |-> <<ks[i], a[ks[i]]>>], 1, Len(ks))

Find_FirstWhenMissing(qs, questionId) ==
  IF \E i \in 1..Len(qs) : qs[i].id = questionId
  THEN Some(qs[CHOOSE i \in 1..Len(qs) :
                 /\ qs[i].id = questionId
                 /\ \A j \in 1..(i - 1) : qs[j].id # questionId])
  ELSE Some(qs[1])

\* questions.find(q => q.id === questionId): the first match, or Null.
Find(qs, questionId) ==
  IF \E i \in 1..Len(qs) : qs[i].id = questionId
  THEN Some(qs[CHOOSE i \in 1..Len(qs) :
                 /\ qs[i].id = questionId
                 /\ \A j \in 1..(i - 1) : qs[j].id # questionId])
  ELSE Null

ScoreAccumulators ==
  [economicRawScore |-> 0, socialRawScore |-> 0,
   economicMaxScore |-> 0, socialMaxScore |-> 0,
   partyScore |-> [p \in Parties |-> 0],
   categoryScores |->
     [c \in QuestionCategories |-> [economic |-> 0, social |-> 0, count |-> 0]]]

MaxPossible_Unweighted(q) == 2

\* const maxPossible = 2 * question.weight
MaxPossible(q) == 2 * q.weight

PartyTerm_DirectionAdjusted(q, p, userAnswer) ==
  userAnswer * getAxisDirection(q) * q.partyScores[p] * q.weight

PartyTerm_Unweighted(q, p, userAnswer) == userAnswer * q.partyScores[p]

\* What one answer adds to the score of party p.
PartyTerm(q, p, userAnswer) == userAnswer * q.partyScores[p] * q.weight

OnEconomicAxis_Whatever(q) == TRUE

\* if (question.axis === 'economic')
OnEconomicAxis(q) == q.axis = "economic"

\* The statements of the forEach callback of calculateScores that follow the
\* early return, for the question found and its direction dir.
ScoreQuestion(acc, q, userAnswer, dir) ==
  LET maxPossible == MaxPossible(q)
      weightedAnswer == userAnswer * dir * q.weight
      cat == q.category
      a1 ==
        IF dir = 0 THEN acc
        ELSE IF OnEconomicAxis(q)
        THEN [acc EXCEPT
                !.economicRawScore = @ + weightedAnswer,
                !.economicMaxScore = @ + maxPossible,
                !.categoryScores[cat].economic = @ + userAnswer * dir]
        ELSE [acc EXCEPT
                !.socialRawScore = @ + weightedAnswer,
                !.socialMaxScore = @ + maxPossible,
                !.categoryScores[cat].social = @ + userAnswer * dir]
  IN  [a1 EXCEPT
         !.categoryScores[cat].count = @ + 1,
         !.partyScore = [p \in Parties |-> @[p] + PartyTerm(q, p, userAnswer)]]

\* Body of the forEach callback of calculateScores for one entry.
ScoreEntry(qs, acc, questionId, userAnswer) ==
  LET found == Find(qs, questionId)
  IN  IF found = Null \/ userAnswer = 0 THEN acc
      ELSE ScoreQuestion(acc, Val(found), userAnswer, getAxisDirection(Val(found)))

\* The accumulators after entries.forEach has run, `each` being what every
\* entry alone adds to zero.  Every statement of the callback is a `+=` of a
\* term that does not depend on the accumulators, so each accumulator ends as
\* the sum, over the entries, of what each adds.
ScoreTotals(each) ==
  [economicRawScore |-> IntSum([i \in DOMAIN each |-> each[i].economicRawScore]),
   socialRawScore |-> IntSum([i \in DOMAIN each |-> each[i].socialRawScore]),
   economicMaxScore |-> IntSum([i \in DOMAIN each |-> each[i].economicMaxScore]),
   socialMaxScore |-> IntSum([i \in DOMAIN each |-> each[i].socialMaxScore]),
   partyScore |-> [p \in Parties |-> IntSum([i \in DOMAIN each |-> each[i].partyScore[p]])],
   categoryScores |->
     [c \in QuestionCategories |->
        [economic |-> IntSum([i \in DOMAIN each |-> each[i].categoryScores[c].economic]),
         social |-> IntSum([i \in DOMAIN each |-> each[i].categoryScores[c].social]),
         count |-> IntSum([i \in DOMAIN each |-> each[i].categoryScores[c].count])]]]

ScoreEntries(qs, entries) ==
  ScoreTotals(SubSeq([i \in 1..Len(entries) |->
                        ScoreEntry(qs, ScoreAccumulators, entries[i][1], entries[i][2])],
                     1, Len(entries)))

Normalized_OneWhenEmpty(rawScore, maxScore) ==
  IF maxScore > 0 THEN Rat(rawScore, maxScore) ELSE Rat(1, 1)

\* maxScore > 0 ? rawScore / maxScore : 0
Normalized(rawScore, maxScore) ==
  IF maxScore > 0 THEN Rat(rawScore, maxScore) ELSE RZero

\* calculateScores after its forEach, given the accumulators.
NormalizeScores(acc, multiplier, a) ==
  LET normalizedEconomic == Normalized(acc.economicRawScore, acc.economicMaxScore)
      normalizedSocial == Normalized(acc.socialRawScore, acc.socialMaxScore)
      lo == Int2R(-AXIS_RANGE)
      hi == Int2R(AXIS_RANGE)
  IN  [economicScore |->
         clamp(RMul(RMul(normalizedEconomic, hi), multiplier), lo, hi),
       socialScore |->
         clamp(RMul(RMul(normalizedSocial, hi), multiplier), lo, hi),
       scoresByParty |-> acc.partyScore,
       scoresByCategory |->
         [c \in QuestionCategories |->
            LET cs == acc.categoryScores[c]
            IN  [economic |->
                   IF cs.count > 0 THEN Rat(cs.economic, cs.count) ELSE RZero,
                 social |->
                   IF cs.count > 0 THEN Rat(cs.social, cs.count) ELSE RZero]],
       answers |-> a]

calculateScores(qs, multiplier, a) ==
  NormalizeScores(ScoreEntries(qs, ObjectEntries(a)), multiplier, a)

\* ------------------------------------------------------------------------
\* Quiz.tsx: the quiz's state and the handlers that update it

\* the initial value handed to useState
InitialQuizState ==
  [answers |-> <<>>, currentQuestionIndex |-> 0, completed |-> FALSE, finalResults |-> Null]

\* questions[state.currentQuestionIndex], the question on screen (indices from 0)
currentQuestion(qs, s) == qs[s.currentQuestionIndex + 1]

\* { ...prev.answers, [questionId]: answer }
updatedAnswers(prev, questionId, answer) == (questionId :> answer) @@ prev.answers

\* Math.max(a, b)
IntMax(a, b) == IF a >= b THEN a ELSE b

\* handleAnswer scoring the answers as they were before this one
handleAnswer_ScoresPrevious(prev, qs, multiplier, questionId, answer) ==
  IF prev.currentQuestionIndex = Len(qs) - 1
  THEN [prev EXCEPT !.answers = updatedAnswers(prev, questionId, answer),
                    !.completed = TRUE,
                    !.finalResults = Some(calculateScores(qs, multiplier, prev.answers))]
  ELSE [prev EXCEPT !.answers = updatedAnswers(prev, questionId, answer),
                    !.currentQuestionIndex = prev.currentQuestionIndex + 1]

\* handleAnswer's state update: the answer is recorded; on the last question
\* the quiz completes with the scores of the updated answers, otherwise the
\* next question comes up.
handleAnswer(prev, qs, multiplier, questionId, answer) ==
  IF prev.currentQuestionIndex = Len(qs) - 1
  THEN [prev EXCEPT !.answers = updatedAnswers(prev, questionId, answer),
                    !.completed = TRUE,
                    !.finalResults = Some(calculateScores(qs, multiplier, updatedAnswers(prev, questionId, answer)))]
  ELSE [prev EXCEPT !.answers = updatedAnswers(prev, questionId, answer),
                    !.currentQuestionIndex = prev.currentQuestionIndex + 1]

\* handlePrevious without the floor at 0
handlePrevious_NoFloor(prev) ==
  [prev EXCEPT !.currentQuestionIndex = prev.currentQuestionIndex - 1]

\* handlePrevious's state update
handlePrevious(prev) ==
  [prev EXCEPT !.currentQuestionIndex = IntMax(0, prev.currentQuestionIndex - 1)]

\* handleSkip dropping the answer given earlier to the skipped question
handleSkip_ClearsAnswer(prev, qs, multiplier) ==
  IF prev.currentQuestionIndex = Len(qs) - 1
  THEN [prev EXCEPT !.completed = TRUE,
                    !.finalResults = Some(calculateScores(qs, multiplier, prev.answers))]
  ELSE [prev EXCEPT !.answers = [k \in DOMAIN prev.answers \ {currentQuestion(qs, prev).id} |-> prev.answers[k]],
                    !.currentQuestionIndex = prev.currentQuestionIndex + 1]

\* handleSkip's state update: the answers stay; on the last question the quiz
\* completes with their scores, otherwise the next question comes up.
handleSkip(prev, qs, multiplier) ==
  IF prev.currentQuestionIndex = Len(qs) - 1
  THEN [prev EXCEPT !.completed = TRUE,
                    !.finalResults = Some(calculateScores(qs, multiplier, prev.answers))]
  ELSE [prev EXCEPT !.currentQuestionIndex = prev.currentQuestionIndex + 1]

\* ------------------------------------------------------------------------
\* parties.ts: party positions and their cache
\* ------------------------------------------------------------------------
PositionAccumulators ==
  [economicScore |-> 0, socialScore |-> 0,
   economicMaxScore |-> 0, socialMaxScore |-> 0]

\* The statements of the forEach callback of calculatePartyPosition for one
\* question, given the party's stance on it and its direction.
PositionQuestion(acc, q, partyAnswer, dir) ==
  LET contribution == partyAnswer * dir * q.weight
      maxContribution == 2 * q.weight
  IN  IF partyAnswer = 0 THEN acc
      ELSE IF dir = 0 THEN acc
      ELSE IF q.axis = "economic"
      THEN [acc EXCEPT !.economicScore = @ + contribution,
                       !.economicMaxScore = @ + maxContribution]
      ELSE [acc EXCEPT !.socialScore = @ + contribution,
                       !.socialMaxScore = @ + maxContribution]

\* Body of the forEach callback of calculatePartyPosition for one question.
PositionEntry(acc, q, partyId) ==
  PositionQuestion(acc, q, q.partyScores[partyId], getAxisDirection(q))

\* The accumulators after questions.forEach has run (summed as in ScoreTotals).
PositionTotals(each) ==
  [economicScore |-> IntSum([i \in DOMAIN each |-> each[i].economicScore]),
   socialScore |-> IntSum([i \in DOMAIN each |-> each[i].socialScore]),
   economicMaxScore |-> IntSum([i \in DOMAIN each |-> each[i].economicMaxScore]),
   socialMaxScore |-> IntSum([i \in DOMAIN each |-> each[i].socialMaxScore])]

PositionEntries(qs, partyId) ==
  PositionTotals(SubSeq([i \in 1..Len(qs) |->
                           PositionEntry(PositionAccumulators, qs[i], partyId)],
                        1, Len(qs)))

\* calculatePartyPosition after its forEach, given the accumulators.
NormalizePosition(acc) ==
  LET normalizedEconomic ==
        IF acc.economicMaxScore > 0
        THEN RMul(Rat(acc.economicScore, acc.economicMaxScore), Int2R(AXIS_RANGE))
        ELSE RZero
      normalizedSocial ==
        IF acc.socialMaxScore > 0
        THEN RMul(Rat(acc.socialScore, acc.socialMaxScore), Int2R(AXIS_RANGE))
        ELSE RZero
  IN  [x |-> normalizedEconomic, y |-> normalizedSocial]

calculatePartyPosition(qs, partyId) == NormalizePosition(PositionEntries(qs, partyId))

\* getPartyPositionsCache: the cache as it is after the call.
getPartyPositionsCache(cache, qs) ==
  IF cache = Null
  THEN Some([p \in Parties |-> calculatePartyPosition(qs, p)])
  ELSE cache

RunsAfterLookup_NoCache(cache, runs) == [p \in Parties |-> runs[p] + 1]

\* How often calculatePartyPosition has run for each party once
\* getPartyPositionsCache has returned: it runs only to fill an empty cache.
RunsAfterLookup(cache, runs) ==
  IF cache = Null THEN [p \in Parties |-> runs[p] + 1] ELSE runs

\* getPartyPosition(partyId), given the filled cache.
getPartyPosition(cache, partyId) == Val(cache)[partyId]

\* getAllPartyPositions(), in the order of the `parties` array.
getAllPartyPositions(cache) ==
  [i \in 1..Len(PartyIds) |->
     [party |-> PartyIds[i], position |-> getPartyPosition(cache, PartyIds[i])]]

\* positions.reduce((sum, p) => sum + f(p), 0) over positions[1..k]
RECURSIVE ReduceSum(_, _, _)
ReduceSum(positions, coord, k) ==
  IF k = 0 THEN RZero
  ELSE RAdd(ReduceSum(positions, coord, k - 1), positions[k].position[coord])

getPartyMeanPosition(cache) ==
  LET positions == getAllPartyPositions(cache)
      sumX == ReduceSum(positions, "x", Len(positions))
      sumY == ReduceSum(positions, "y", Len(positions))
  IN  [x |-> RDiv(sumX, Int2R(Len(positions))),
       y |-> RDiv(sumY, Int2R(Len(positions)))]

\* ------------------------------------------------------------------------
\* Distances and percentages.
\*   A surd [n, d] (Big naturals, d > 0) is the real sqrt(n / d) >= 0.
\*   A percentage [nan, n, d] is NaN when nan holds and otherwise the real
\*   100 * (1 - sqrt(n / d)): the value of ((m - x) / m) * 100 is kept by the
\*   square n / d of x / m.
\* ------------------------------------------------------------------------
\* Math.hypot(x, y) of rationals: sqrt(x^2 + y^2)
BigSquare(i) == BigMul(BigOf(Abs(i)), BigOf(Abs(i)))

\* sqrt(xn2 / xd2 + yn2 / yd2)
RootOfSum(xn2, xd2, yn2, yd2) ==
  [n |-> BigAdd(BigMul(xn2, yd2), BigMul(yn2, xd2)), d |-> BigMul(xd2, yd2)]

Hypot(x, y) ==
  IF x[1] = 0 /\ y[1] = 0 THEN [n |-> <<>>, d |-> BigOf(1)]
  ELSE RootOfSum(BigSquare(x[1]), BigSquare(x[2]), BigSquare(y[1]), BigSquare(y[2]))

SurdLt(s, t) == BigLt(BigMul(s.n, t.d), BigMul(t.n, s.d))
SurdEq(s, t) == BigMul(s.n, t.d) = BigMul(t.n, s.d)
SurdIsZero(s) == s.n = <<>>
SurdOne == [n |-> BigOf(1), d |-> BigOf(1)]

\* s * c for a rational c > 0
SurdTimes(s, c) ==
  [n |-> BigMul(s.n, BigOf(c[1] * c[1])), d |-> BigMul(s.d, BigOf(c[2] * c[2]))]

\* Math.max(...values) of a non-empty sequence of surds
MathMax(values) ==
  values[CHOOSE i \in 1..Len(values) :
           \A j \in 1..Len(values) : ~SurdLt(values[i], values[j])]

PctNaN == [nan |-> TRUE, n |-> <<>>, d |-> BigOf(1)]
PctBelow100(share) == [nan |-> FALSE, n |-> share.n, d |-> share.d]

\* Math.max(0, Math.min(100, ((maxDistance - distance) / maxDistance) * 100)),
\* as distance / maxDistance is the surd `share`: the value is 100 * (1 - share),
\* never above 100 (share >= 0), and below 0 exactly when share > 1.
\* 0 / 0 is NaN, which Math.min and Math.max hand on; x / 0 for x < 0 is
\* -Infinity, which Math.max raises to 0.
AlignmentPct_NoClampAgainstExtent(distance, maxDistance) ==
  IF SurdIsZero(maxDistance)
  THEN (IF SurdIsZero(distance) THEN PctNaN ELSE PctBelow100(SurdOne))
  ELSE PctBelow100(SurdTimes([n |-> BigMul(distance.n, maxDistance.d),
                              d |-> BigMul(distance.d, maxDistance.n)],
                             Rat(5, 2)))

AlignmentPct(distance, maxDistance) ==
  IF SurdIsZero(maxDistance)
  THEN (IF SurdIsZero(distance) THEN PctNaN ELSE PctBelow100(SurdOne))
  ELSE LET share == [n |-> BigMul(distance.n, maxDistance.d),
                     d |-> BigMul(distance.d, maxDistance.n)]
       IN  IF SurdLt(SurdOne, share) THEN PctBelow100(SurdOne)
           ELSE PctBelow100(share)

\* Math.abs(a - b) <= t for percentages a, b and an integer t >= 0:
\* with u >= v the squares kept by the two, sqrt(u) - sqrt(v) <= t / 100, that is
\* u <= v + s + 2 * sqrt(s * v) for s = t^2 / 10^4.  False when either is NaN.
\* The three steps below put u, v + s and the rest over the common denominator
\* D = u.d * v.d * 10^4: U <= V + 2 * sqrt(s * v) * D, decided by U <= V or
\* else by squaring, W^2 * 10^4 * v.d <= 4 * t^2 * v.n * D^2 for W = U - V.
GapSquaredAtMost(W, D, v, tenK, tt) ==
  BigLe(BigMul(BigMul(W, W), BigMul(tenK, v.d)),
        BigMul(BigMul(BigOf(4), tt), BigMul(v.n, BigMul(D, D))))

GapAtMost(U, V, D, v, tenK, tt) ==
  IF BigLe(U, V) THEN TRUE ELSE GapSquaredAtMost(BigSub(U, V), D, v, tenK, tt)

\* sqrt(u) - sqrt(v) <= t / 100 for the squares u >= v kept by two percentages
SquaresGapAtMost(u, v, tenK, tt) ==
  GapAtMost(BigMul(BigMul(u.n, v.d), tenK),
            BigAdd(BigMul(BigMul(v.n, u.d), tenK), BigMul(tt, BigMul(u.d, v.d))),
            BigMul(BigMul(u.d, v.d), tenK), v, tenK, tt)

PctDiffAtMost(a, b, t) ==
  IF a.nan \/ b.nan THEN FALSE
  ELSE IF SurdLt([n |-> b.n, d |-> b.d], [n |-> a.n, d |-> a.d])
  THEN SquaresGapAtMost(a, b, BigOf(10000), BigOf(t * t))
  ELSE SquaresGapAtMost(b, a, BigOf(10000), BigOf(t * t))

\* PctLe(a, b): a <= b as numbers (false when either is NaN)
PctLe(a, b) ==
  ~a.nan /\ ~b.nan /\ ~SurdLt([n |-> a.n, d |-> a.d], [n |-> b.n, d |-> b.d])

\* ------------------------------------------------------------------------
\* parties.ts: alignment ranking and tie detection
\* ------------------------------------------------------------------------
\* entries.sort((a, b) => a.distance - b.distance): Array.prototype.sort is
\* stable, so an entry comes after the nearer entries and after the equally
\* far entries that were before it.
EarlierOfEqual_LaterFirst(j, i) == j > i

\* of two equally far entries at indices j and i, j stays ahead of i
EarlierOfEqual(j, i) == j < i

SortByDistance_Unsorted(entries) == entries

SortByDistance(entries) ==
  LET n == Len(entries)
      Before(i) ==
        {j \in 1..n : \/ SurdLt(entries[j].distance, entries[i].distance)
                      \/ /\ EarlierOfEqual(j, i)
                         /\ SurdEq(entries[j].distance, entries[i].distance)}
      before == SubSeq([i \in 1..n |-> Cardinality(Before(i))], 1, n)
  IN  SubSeq([r \in 1..n |-> entries[CHOOSE i \in 1..n : before[i] = r - 1]], 1, n)

\* The object the map callback of calculatePartyDistances returns for one party.
DistanceEntry(party, position, distance, maxDistance, userX, userY) ==
  [party |-> party,
   position |-> position,
   distance |-> distance,
   alignment |-> AlignmentPct(distance, maxDistance),
   economicDiff |-> RSub(position.x, userX),
   socialDiff |-> RSub(position.y, userY)]

\* positions.map(...) of calculatePartyDistances, before the sort.
DistanceEntries(positions, mean, userX, userY, normalizedUserX, normalizedUserY, maxDistance) ==
  SubSeq([i \in 1..Len(positions) |->
            LET position == positions[i].position
                normalizedPartyX == RSub(position.x, mean.x)
                normalizedPartyY == RSub(position.y, mean.y)
            IN  DistanceEntry(positions[i].party, position,
                              Hypot(RSub(normalizedPartyX, normalizedUserX),
                                    RSub(normalizedPartyY, normalizedUserY)),
                              maxDistance, userX, userY)],
         1, Len(positions))

MaxDistance_NoInflation(maxExtent) == maxExtent

\* const maxDistance = maxExtent * 2.5
MaxDistance(maxExtent) == SurdTimes(maxExtent, Rat(5, 2))

\* calculatePartyDistances from the mean position on.
DistancesFrom(positions, mean, userX, userY, normalizedUserX, normalizedUserY) ==
  LET normalizedPositions ==
        [i \in 1..Len(positions) |->
           [x |-> RSub(positions[i].position.x, mean.x),
            y |-> RSub(positions[i].position.y, mean.y)]]
      extents ==
        SubSeq([i \in 1..Len(positions) |->
                  Hypot(normalizedPositions[i].x, normalizedPositions[i].y)],
               1, Len(positions))
          \o <<Hypot(normalizedUserX, normalizedUserY)>>
      maxExtent == MathMax(extents)
  IN  SortByDistance(DistanceEntries(positions, mean, userX, userY,
                                     normalizedUserX, normalizedUserY,
                                     MaxDistance(maxExtent)))

DistancesAround_UserNotNormalized(positions, mean, userX, userY) ==
  DistancesFrom(positions, mean, userX, userY, userX, userY)

\* calculatePartyDistances, given the party positions and their mean.
DistancesAround(positions, mean, userX, userY) ==
  DistancesFrom(positions, mean, userX, userY,
                RSub(userX, mean.x), RSub(userY, mean.y))

calculatePartyDistances(cache, userX, userY) ==
  DistancesAround(getAllPartyPositions(cache), getPartyMeanPosition(cache),
                  userX, userY)

getClosestParty(cache, x, y) == calculatePartyDistances(cache, x, y)[1].party

TopAligned_WholeRanking(distances, threshold) ==
  LET best == distances[1]
      IsClose(p) == PctDiffAtMost(p.alignment, best.alignment, threshold)
      closeOnes == SelectSeq(distances, IsClose)
  IN  [best |-> best,
       closeOnes |-> closeOnes,
       isTie |-> Len(closeOnes) > 0,
       tieThreshold |-> threshold]

\* getTopAlignedParties after its call of calculatePartyDistances.
TopAligned(distances, threshold) ==
  LET best == distances[1]
      IsClose(p) == PctDiffAtMost(p.alignment, best.alignment, threshold)
      closeOnes == SelectSeq(Tail(distances), IsClose)
  IN  [best |-> best,
       closeOnes |-> closeOnes,
       isTie |-> Len(closeOnes) > 0,
       tieThreshold |-> threshold]

getTopAlignedParties(cache, x, y, threshold) ==
  TopAligned(calculatePartyDistances(cache, x, y), threshold)

\* ------------------------------------------------------------------------
\* parties.ts: key differences and common ground of two parties
\* ------------------------------------------------------------------------
\* question.partyScores[partyId], Null for `undefined`
PartyScore(q, partyId) ==
  IF partyId \in DOMAIN q.partyScores THEN Some(q.partyScores[partyId]) ELSE Null

\* userAnswers[question.id], Null for `undefined`
UserAnswer(userAnswers, q) ==
  IF q.id \in DOMAIN userAnswers THEN Some(userAnswers[q.id]) ELSE Null

\* entries.sort((a, b) => key(b) - key(a)), keys[i] being the key of entries[i]:
\* Array.prototype.sort is stable, so an entry comes after the entries of a
\* larger key and after those of an equal key that were before it.
SortDescending_Unsorted(entries, keys) == entries

SortDescending(entries, keys) ==
  LET n == Len(entries)
      before ==
        SubSeq([i \in 1..n |->
                  Cardinality({j \in 1..n :
                                 keys[j] > keys[i] \/ (keys[j] = keys[i] /\ j < i)})],
               1, n)
  IN  SubSeq([r \in 1..n |-> entries[CHOOSE i \in 1..n : before[i] = r - 1]], 1, n)

\* entries.slice(0, limit) for a limit >= 0
Slice(entries, limit) ==
  SubSeq(entries, 1, IF limit < Len(entries) THEN limit ELSE Len(entries))

UserAlignsWith_ZeroIsAnAnswer(userAnswer, p1Answer, p2Answer, party1, party2) ==
  IF userAnswer = Null THEN "neither"
  ELSE LET distToP1 == Abs(Val(userAnswer) - p1Answer)
           distToP2 == Abs(Val(userAnswer) - p2Answer)
       IN  IF distToP1 <= 1 /\ distToP2 <= 1 THEN "both"
           ELSE IF distToP1 <= distToP2 - 1 THEN party1
           ELSE IF distToP2 <= distToP1 - 1 THEN party2
           ELSE "neither"

UserAlignsWith_WideMargin(userAnswer, p1Answer, p2Answer, party1, party2) ==
  IF userAnswer = Null \/ userAnswer = Some(0) THEN "neither"
  ELSE LET distToP1 == Abs(Val(userAnswer) - p1Answer)
           distToP2 == Abs(Val(userAnswer) - p2Answer)
       IN  IF distToP1 <= 1 /\ distToP2 <= 1 THEN "both"
           ELSE IF distToP1 <= distToP2 - 2 THEN party1
           ELSE IF distToP2 <= distToP1 - 2 THEN party2
           ELSE "neither"

\* userAlignsWith as getKeyDifferences sets it for one question
UserAlignsWith(userAnswer, p1Answer, p2Answer, party1, party2) ==
  IF userAnswer = Null \/ userAnswer = Some(0) THEN "neither"
  ELSE LET distToP1 == Abs(Val(userAnswer) - p1Answer)
           distToP2 == Abs(Val(userAnswer) - p2Answer)
       IN  IF distToP1 <= 1 /\ distToP2 <= 1 THEN "both"
           ELSE IF distToP1 <= distToP2 - 1 THEN party1
           ELSE IF distToP2 <= distToP1 - 1 THEN party2
           ELSE "neither"

\* if (differenceScore >= 2)
SignificantDifference(differenceScore) == differenceScore >= 2

\* The entry getKeyDifferences pushes for a question on which both parties
\* have a stance.
PolicyDifference(q, party1, party2, userAnswers) ==
  [questionId |-> q.id,
   category |-> q.category,
   axis |-> q.axis,
   party1Answer |-> q.partyScores[party1],
   party2Answer |-> q.partyScores[party2],
   userAnswer |-> UserAnswer(userAnswers, q),
   differenceScore |-> Abs(q.partyScores[party1] - q.partyScores[party2]),
   userAlignsWith |->
     UserAlignsWith(UserAnswer(userAnswers, q), q.partyScores[party1],
                    q.partyScores[party2], party1, party2)]

\* `differences` after questions.forEach has run
Differences(qs, party1, party2, userAnswers) ==
  LET Differs(q) ==
        /\ PartyScore(q, party1) # Null
        /\ PartyScore(q, party2) # Null
        /\ SignificantDifference(Abs(q.partyScores[party1] - q.partyScores[party2]))
      kept == SelectSeq(qs, Differs)
  IN  SubSeq([i \in 1..Len(kept) |->
                PolicyDifference(kept[i], party1, party2, userAnswers)],
             1, Len(kept))

\* differences.sort(...).slice(0, limit)
TopDifferences(differences, limit) ==
  Slice(SortDescending(differences,
                       SubSeq([i \in 1..Len(differences) |->
                                 differences[i].differenceScore],
                              1, Len(differences))),
        limit)

getKeyDifferences(qs, party1, party2, userAnswers, limit) ==
  TopDifferences(Differences(qs, party1, party2, userAnswers), limit)

\* Math.sign of an integer
MathSign(i) == IF i > 0 THEN 1 ELSE IF i < 0 THEN -1 ELSE 0

\* sharedStance, from avgStance = (p1Answer + p2Answer) / 2 compared with 1.5,
\* 0 and -1.5, that is p1Answer + p2Answer with 3, 0 and -3
SharedStance(p1Answer, p2Answer) ==
  IF p1Answer + p2Answer >= 3 THEN "Strongly support"
  ELSE IF p1Answer + p2Answer > 0 THEN "Support"
  ELSE IF p1Answer + p2Answer <= -3 THEN "Strongly oppose"
  ELSE "Oppose"

BothAgree_SameSignOrZero(p1Answer, p2Answer) == MathSign(p1Answer) = MathSign(p2Answer)

\* Both agree (same sign and both non-zero)
BothAgree(p1Answer, p2Answer) ==
  p1Answer # 0 /\ p2Answer # 0 /\ MathSign(p1Answer) = MathSign(p2Answer)

\* `commonGround` after questions.forEach has run; a question's text is
\* stood for by its id (the texts of the bank are pairwise different).
CommonGround(qs, party1, party2) ==
  LET Agree(q) ==
        /\ PartyScore(q, party1) # Null
        /\ PartyScore(q, party2) # Null
        /\ BothAgree(q.partyScores[party1], q.partyScores[party2])
      kept == SelectSeq(qs, Agree)
  IN  [i \in 1..Len(kept) |->
         [questionText |-> kept[i].id,
          sharedStance |-> SharedStance(kept[i].partyScores[party1],
                                        kept[i].partyScores[party2]),
          agreement |->
            IF Abs(kept[i].partyScores[party1]) < Abs(kept[i].partyScores[party2])
            THEN Abs(kept[i].partyScores[party1])
            ELSE Abs(kept[i].partyScores[party2])]]

\* commonGround.sort(...).slice(0, limit).map(...)
TopCommonGround(common, limit) ==
  LET top == Slice(SortDescending(common,
                                  SubSeq([i \in 1..Len(common) |-> common[i].agreement],
                                         1, Len(common))),
                   limit)
  IN  [i \in 1..Len(top) |->
         [questionText |-> top[i].questionText, sharedStance |-> top[i].sharedStance]]

getCommonGround(qs, party1, party2, limit) ==
  TopCommonGround(CommonGround(qs, party1, party2), limit)

\* ------------------------------------------------------------------------
\* Results.tsx: calculateScoreImpact
\* ------------------------------------------------------------------------
NetImpact_Sum(party1Impact, party2Impact) == party1Impact + party2Impact

\* const netImpact = party1Impact - party2Impact
NetImpact(party1Impact, party2Impact) == party1Impact - party2Impact

Answered_ZeroIncluded(userAnswer) == userAnswer # Null

\* the question passes `if (userAnswer === undefined || userAnswer === 0) return`
Answered(userAnswer) == userAnswer # Null /\ userAnswer # Some(0)

\* `impacts` after questions.forEach has run
Impacts(qs, userAnswers, party1, party2) ==
  LET Counts(q) ==
        /\ Answered(UserAnswer(userAnswers, q))
        /\ PartyScore(q, party1) # Null
        /\ PartyScore(q, party2) # Null
      kept == SelectSeq(qs, Counts)
  IN  [i \in 1..Len(kept) |->
         [questionId |-> kept[i].id,
          category |-> kept[i].category,
          party1Impact |-> userAnswers[kept[i].id] * kept[i].partyScores[party1] * kept[i].weight,
          party2Impact |-> userAnswers[kept[i].id] * kept[i].partyScores[party2] * kept[i].weight,
          netImpact |->
            NetImpact(userAnswers[kept[i].id] * kept[i].partyScores[party1] * kept[i].weight,
                      userAnswers[kept[i].id] * kept[i].partyScores[party2] * kept[i].weight),
          userAnswer |-> userAnswers[kept[i].id]]]

\* impacts.sort((a, b) => Math.abs(b.netImpact) - Math.abs(a.netImpact))
MostDecisiveFirst(impacts) ==
  SortDescending(impacts,
                 SubSeq([i \in 1..Len(impacts) |-> Abs(impacts[i].netImpact)],
                        1, Len(impacts)))

calculateScoreImpact(qs, userAnswers, party1, party2) ==
  MostDecisiveFirst(Impacts(qs, userAnswers, party1, party2))

\* ------------------------------------------------------------------------
\* Inputs explored
\* ------------------------------------------------------------------------
MaxBankLen == 1       \* length of the generated question banks
MaxAnswerIds == 2     \* answer maps range over the first MaxAnswerIds questions
UnknownId == 99       \* an answer key that is the id of no question

\* The three-question bank of the specification's end-to-end scenario, with
\* entity X as pap (the baseline) and entity Y as each opposition party.
ExampleBank ==
  <<Q(1, "taxation", "economic", 1, 2, -2, -2, -2),
    Q(2, "taxation", "economic", 1, 1, -1, -1, -1),
    Q(3, "governance", "social", 2, -2, 2, 2, 2)>>

ExampleAnswers == (1 :> 2) @@ (2 :> 2) @@ (3 :> -2)

\* Question shapes the generated banks are built from: questions 1 and 40 of
\* the shipped bank, and one on which pap equals the opposition mean.
QuestionShapes ==
  {Q(0, "taxation", "economic", 3, -2, 2, 2, 2),
   Q(0, "taxation", "economic", 1, 1, 2, 1, 0),
   Q(0, "immigration", "social", 1, 0, 1, -1, 2)}

GeneratedBanks ==
  UNION {{[i \in 1..n |-> [f[i] EXCEPT !.id = i]] : f \in [1..n -> QuestionShapes]}
         : n \in 1..MaxBankLen}

\* Two questions of one category and one axis, the first of direction 0
\* (pap's stance equals the opposition mean), and one of the other axis.
MixedBank ==
  <<Q(1, "taxation", "economic", 1, 1, 2, 1, 0),
    Q(2, "immigration", "social", 1, 0, 1, -1, 2),
    Q(3, "taxation", "economic", 3, -2, 2, 2, 2)>>

Banks == {questions, ExampleBank, MixedBank} \cup GeneratedBanks

Multipliers == {Rat(1, 2), Rat(1, 1), Rat(3, 2)}

QuestionIds(qs) == {qs[i].id : i \in 1..Len(qs)}

\* The respondent who answers every question as party p does.
StanceAnswers(qs, p) ==
  [id \in QuestionIds(qs) |-> Val(Find(qs, id)).partyScores[p]]

PartialMaps(ids) == UNION {[D -> Answer] : D \in SUBSET ids}

AnswerMaps(qs) ==
  LET ids == {qs[i].id : i \in 1..(IF Len(qs) < MaxAnswerIds THEN Len(qs) ELSE MaxAnswerIds)}
  IN  PartialMaps(ids)
        \cup {m @@ (UnknownId :> 2) : m \in PartialMaps(ids)}
        \cup {StanceAnswers(qs, p) : p \in Parties}
        \cup {ExampleAnswers}

\* Respondent positions: a grid over the compass, every party's own position
\* and the midpoint of every two parties.
GridDivisions == 2

Origin == [x |-> RZero, y |-> RZero]

GridPositions ==
  {[x |-> Rat(i * AXIS_RANGE, GridDivisions), y |-> Rat(j * AXIS_RANGE, GridDivisions)]
     : i \in -GridDivisions..GridDivisions, j \in -GridDivisions..GridDivisions}

PositionsAround(pos) ==
  GridPositions
    \cup {pos[p] : p \in Parties}
    \cup {[x |-> RDiv(RAdd(pos[p].x, pos[q].x), Int2R(2)),
           y |-> RDiv(RAdd(pos[p].y, pos[q].y), Int2R(2))]
            : p \in Parties, q \in Parties}

UserPositions(qs) == PositionsAround([p \in Parties |-> calculatePartyPosition(qs, p)])

\* Questions 1 and 28 of the shipped bank alone: pap, wp = psp and sdp at three
\* different points.
SpreadBank ==
  <<Q(1, "taxation", "economic", 3, -2, 2, 2, 2),
    Q(28, "governance", "social", 2, 2, -1, -1, -2)>>

\* One question on which no party takes a strong stance: pap is at -5 on the
\* economic axis and the opposition at 5, so that the point opposite pap
\* across the party mean, 10, is on the compass.
MildBank == <<Q(1, "taxation", "economic", 1, -1, 1, 1, 1)>>

\* The shipped bank, the specification's example (the three opposition parties
\* at one point), the spread bank and the mild bank.
RankingBanks == {questions, ExampleBank, SpreadBank, MildBank}

CLOSE_MATCH_THRESHOLD == 9
DefaultThreshold == 5
Thresholds == {2, DefaultThreshold, CLOSE_MATCH_THRESHOLD}

AllStanceQuestions ==
  {Q(1, "taxation", "economic", 1, a, b, c, d) : a \in Answer, b \in Answer,
                                                 c \in Answer, d \in Answer}

MaxRuns == 2          \* lookups stop once calculatePartyPosition has run so often

DefaultKeyDifferencesLimit == 5
DefaultCommonGroundLimit == 3

\* The limits handed to getKeyDifferences and getCommonGround.
Limits == {0, DefaultCommonGroundLimit, DefaultKeyDifferencesLimit}

\* Answer maps handed to the comparison functions: every party's own
\* stances, which answer every question, and maps that leave questions out
\* (no answer, any answer to the first question alone, the example's answers).
FullAnswers(qs) == {StanceAnswers(qs, p) : p \in Parties}

SparseAnswers(qs) == PartialMaps({qs[1].id}) \cup {ExampleAnswers}
CompareBanks == {questions, ExampleBank}

\* One-question banks on which the first two parties take every pair of stances.
StanceBanks ==
  {<<Q(1, "taxation", "economic", 1, a, b, 0, 0)>> : a \in Answer, b \in Answer}

\* ------------------------------------------------------------------------
\* Operations
\* ------------------------------------------------------------------------
\* no position has been looked up
CacheIdle ==
  /\ positionRuns = [p \in Parties |-> 0]
  /\ partyPosition = Null
  /\ meanPosition = Null

\* Home shows the introduction and no Quiz is mounted
PageIdle ==
  /\ state = InitialQuizState
  /\ appState = "INTRODUCTION"
  /\ advances = 0
  /\ lastEvent = "none"

\* no request has reached the route
ServerIdle ==
  /\ rateLimitMap = <<>>
  /\ now = 0
  /\ windowAccepted = <<>>
  /\ response = Null
  /\ apiKey = Null

\* the detailed review holds no explanation and no fetch is under way
ReviewIdle ==
  /\ explanations = <<>>
  /\ fetchState = <<>>
  /\ incoming = <<>>
  /\ fullExplanation = <<>>
  /\ fetches = <<>>

\* no comparison has been made
CompareIdle ==
  /\ party1Id = PartyIds[1]
  /\ party2Id = PartyIds[2]
  /\ limitArg = DefaultKeyDifferencesLimit
  /\ keyDifferences = Null
  /\ commonGround = Null
  /\ scoreImpact = Null

GetAxisDirection ==
  /\ axisDirection = Null
  /\ axisDirection' = Some(getAxisDirection(question))
  /\ UNCHANGED <<pageVars, serverVars, reviewVars, inputs, results, partyPositionsCache, partyDistances, topAligned,
                 closestParty, cacheVars, compareVars>>

CalculateScores ==
  /\ results = Null
  /\ results' = Some(calculateScores(bank, SCORE_MULTIPLIER, answers))
  /\ UNCHANGED <<pageVars, serverVars, reviewVars, inputs, axisDirection, partyPositionsCache, partyDistances,
                 topAligned, closestParty, cacheVars, compareVars>>

\* getAllPartyPositions(): reads every party's position through the cache.
GetAllPartyPositions ==
  /\ \A p \in Parties : positionRuns[p] < MaxRuns
  /\ partyPositionsCache' = getPartyPositionsCache(partyPositionsCache, bank)
  /\ positionRuns' = RunsAfterLookup(partyPositionsCache, positionRuns)
  /\ UNCHANGED <<pageVars, serverVars, reviewVars, inputs, axisDirection, results, partyDistances, topAligned,
                 closestParty, partyPosition, meanPosition, compareVars>>

\* calculatePartyDistances(userX, userY); its first step, getPartyMeanPosition,
\* fills the cache.
CalculatePartyDistances ==
  /\ partyDistances = Null
  /\ \A p \in Parties : positionRuns[p] < MaxRuns
  /\ partyPositionsCache' = getPartyPositionsCache(partyPositionsCache, bank)
  /\ positionRuns' = RunsAfterLookup(partyPositionsCache, positionRuns)
  /\ partyDistances' = Some(calculatePartyDistances(partyPositionsCache',
                                               userPosition.x, userPosition.y))
  /\ UNCHANGED <<pageVars, serverVars, reviewVars, inputs, axisDirection, results, topAligned, closestParty,
                 partyPosition, meanPosition, compareVars>>

GetClosestParty ==
  /\ closestParty = Null
  /\ \A p \in Parties : positionRuns[p] < MaxRuns
  /\ partyPositionsCache' = getPartyPositionsCache(partyPositionsCache, bank)
  /\ positionRuns' = RunsAfterLookup(partyPositionsCache, positionRuns)
  /\ closestParty' = Some(getClosestParty(partyPositionsCache',
                                          userPosition.x, userPosition.y))
  /\ UNCHANGED <<pageVars, serverVars, reviewVars, inputs, axisDirection, results, partyDistances, topAligned,
                 partyPosition, meanPosition, compareVars>>

GetTopAlignedParties ==
  /\ topAligned = Null
  /\ \A p \in Parties : positionRuns[p] < MaxRuns
  /\ partyPositionsCache' = getPartyPositionsCache(partyPositionsCache, bank)
  /\ positionRuns' = RunsAfterLookup(partyPositionsCache, positionRuns)
  /\ topAligned' = Some(getTopAlignedParties(partyPositionsCache',
                                             userPosition.x, userPosition.y,
                                             thresholdArg))
  /\ UNCHANGED <<pageVars, serverVars, reviewVars, inputs, axisDirection, results, partyDistances, closestParty,
                 partyPosition, meanPosition, compareVars>>

\* getPartyPosition(partyId) for a party of the list
GetPartyPosition ==
  /\ \A p \in Parties : positionRuns[p] < MaxRuns
  /\ partyPositionsCache' = getPartyPositionsCache(partyPositionsCache, bank)
  /\ positionRuns' = RunsAfterLookup(partyPositionsCache, positionRuns)
  /\ \E p \in Parties :
       partyPosition' = Some([party |-> p,
                              position |-> getPartyPosition(partyPositionsCache', p)])
  /\ UNCHANGED <<pageVars, serverVars, reviewVars, inputs, axisDirection, results, partyDistances, topAligned,
                 closestParty, meanPosition, compareVars>>

\* getPartyMeanPosition(): reads every party's position through the cache.
GetPartyMeanPosition ==
  /\ \A p \in Parties : positionRuns[p] < MaxRuns
  /\ partyPositionsCache' = getPartyPositionsCache(partyPositionsCache, bank)
  /\ positionRuns' = RunsAfterLookup(partyPositionsCache, positionRuns)
  /\ meanPosition' = Some(getPartyMeanPosition(partyPositionsCache'))
  /\ UNCHANGED <<pageVars, serverVars, reviewVars, inputs, axisDirection, results, partyDistances, topAligned,
                 closestParty, partyPosition, compareVars>>

GetKeyDifferences ==
  /\ keyDifferences = Null
  /\ keyDifferences' = Some(getKeyDifferences(bank, party1Id, party2Id, answers, limitArg))
  /\ UNCHANGED <<pageVars, serverVars, reviewVars, inputs, axisDirection, results, partyPositionsCache, partyDistances,
                 topAligned, closestParty, cacheVars, party1Id, party2Id, limitArg,
                 commonGround, scoreImpact>>

GetCommonGround ==
  /\ commonGround = Null
  /\ commonGround' = Some(getCommonGround(bank, party1Id, party2Id, limitArg))
  /\ UNCHANGED <<pageVars, serverVars, reviewVars, inputs, axisDirection, results, partyPositionsCache, partyDistances,
                 topAligned, closestParty, cacheVars, party1Id, party2Id, limitArg,
                 keyDifferences, scoreImpact>>

CalculateScoreImpact ==
  /\ scoreImpact = Null
  /\ scoreImpact' = Some(calculateScoreImpact(bank, answers, party1Id, party2Id))
  /\ UNCHANGED <<pageVars, serverVars, reviewVars, inputs, axisDirection, results, partyPositionsCache, partyDistances,
                 topAligned, closestParty, cacheVars, party1Id, party2Id, limitArg,
                 keyDifferences, commonGround>>

\* getAxisDirection applied to every combination of party stances.
InitDirection ==
  /\ bank = ExampleBank
  /\ SCORE_MULTIPLIER = Rat(1, 1)
  /\ question \in AllStanceQuestions
  /\ axisDirection = Null
  /\ answers = <<>>
  /\ results = Null
  /\ partyPositionsCache = Null
  /\ userPosition = Origin
  /\ thresholdArg = CLOSE_MATCH_THRESHOLD
  /\ partyDistances = Null
  /\ topAligned = Null
  /\ closestParty = Null
  /\ CacheIdle
  /\ PageIdle
  /\ ServerIdle
  /\ ReviewIdle
  /\ CompareIdle

NextDirection == GetAxisDirection

SpecDirection == InitDirection /\ [][NextDirection]_vars

\* calculateScores applied to an answer map, next to the party positions.
Init ==
  /\ bank \in Banks
  /\ SCORE_MULTIPLIER \in Multipliers
  /\ question = questions[1]
  /\ axisDirection = Null
  /\ answers \in AnswerMaps(bank)
  /\ results = Null
  /\ partyPositionsCache = Null
  /\ userPosition = Origin
  /\ thresholdArg = CLOSE_MATCH_THRESHOLD
  /\ partyDistances = Null
  /\ topAligned = Null
  /\ closestParty = Null
  /\ CacheIdle
  /\ PageIdle
  /\ ServerIdle
  /\ ReviewIdle
  /\ CompareIdle

Next == CalculateScores \/ GetAllPartyPositions

Spec == Init /\ [][Next]_vars

\* the ranking functions applied to a respondent position
InitRanking ==
  /\ bank \in RankingBanks
  /\ SCORE_MULTIPLIER = Rat(1, 1)
  /\ question = questions[1]
  /\ axisDirection = Null
  /\ answers = <<>>
  /\ results = Null
  /\ partyPositionsCache = Null
  /\ userPosition \in UserPositions(bank)
  /\ thresholdArg \in Thresholds
  /\ partyDistances = Null
  /\ topAligned = Null
  /\ closestParty = Null
  /\ CacheIdle
  /\ PageIdle
  /\ ServerIdle
  /\ ReviewIdle
  /\ CompareIdle

NextRanking ==
  \/ GetAllPartyPositions
  \/ CalculatePartyDistances
  \/ GetClosestParty
  \/ GetTopAlignedParties

SpecRanking == InitRanking /\ [][NextRanking]_vars

\* the comparison functions applied to two parties, next to calculateScores
InitCompare ==
  /\ \/ /\ bank \in CompareBanks
        /\ answers \in FullAnswers(bank)
        /\ party1Id \in Parties
        /\ party2Id \in Parties \ {party1Id}
        /\ limitArg \in Limits
     \/ /\ bank \in CompareBanks
        /\ answers \in SparseAnswers(bank)
        /\ party1Id \in Parties
        /\ party2Id \in Parties \ {party1Id}
        /\ limitArg = DefaultKeyDifferencesLimit
     \/ /\ bank \in StanceBanks
        /\ answers \in PartialMaps({1})
        /\ party1Id \in {PartyIds[1], PartyIds[2]}
        /\ party2Id \in {PartyIds[1], PartyIds[2]} \ {party1Id}
        /\ limitArg = DefaultKeyDifferencesLimit
  /\ SCORE_MULTIPLIER = Rat(1, 1)
  /\ question = questions[1]
  /\ axisDirection = Null
  /\ results = Null
  /\ partyPositionsCache = Null
  /\ userPosition = Origin
  /\ thresholdArg = CLOSE_MATCH_THRESHOLD
  /\ partyDistances = Null
  /\ topAligned = Null
  /\ closestParty = Null
  /\ CacheIdle
  /\ PageIdle
  /\ ServerIdle
  /\ ReviewIdle
  /\ keyDifferences = Null
  /\ commonGround = Null
  /\ scoreImpact = Null

NextCompare ==
  \/ CalculateScores
  \/ GetKeyDifferences
  \/ GetCommonGround
  \/ CalculateScoreImpact

SpecCompare == InitCompare /\ [][NextCompare]_vars

\* any sequence of calls that read the party positions
InitCache ==
  /\ bank \in RankingBanks
  /\ SCORE_MULTIPLIER = Rat(1, 1)
  /\ question = questions[1]
  /\ axisDirection = Null
  /\ answers = <<>>
  /\ results = Null
  /\ partyPositionsCache = Null
  /\ userPosition \in GridPositions
  /\ thresholdArg = CLOSE_MATCH_THRESHOLD
  /\ partyDistances = Null
  /\ topAligned = Null
  /\ closestParty = Null
  /\ CacheIdle
  /\ PageIdle
  /\ ServerIdle
  /\ ReviewIdle
  /\ CompareIdle

NextCache ==
  \/ GetPartyPosition
  \/ GetAllPartyPositions
  \/ GetPartyMeanPosition
  \/ CalculatePartyDistances

SpecCache == InitCache /\ [][NextCache]_vars

\* ------------------------------------------------------------------------
\* The quiz on the page (Quiz.tsx inside page.tsx's Home)
\* ------------------------------------------------------------------------
MaxQuizLen == 2

\* the question banks the quiz is run on
QuizBanks == {ExampleBank, MixedBank, SubSeq(questions, 1, MaxQuizLen)}

\* what the page's handlers leave alone
libraryVars == <<inputs, axisDirection, partyPositionsCache, partyDistances, topAligned, closestParty, cacheVars, compareVars, serverVars, reviewVars>>

\* Quiz renders the question and its controls only while the quiz is on
\* screen and not completed; once completed it renders a spinner alone.
QuizControlsRendered == appState = "QUIZ" /\ ~state.completed

\* the count of answers and skips, kept while Previous has not been used
Advanced(n) == IF n >= 0 THEN n + 1 ELSE n

\* An answer button of QuizQuestion, or one of the keys 1..5: onAnswer is
\* called with the id of the question on screen.
HandleAnswer ==
  /\ QuizControlsRendered
  /\ \E answer \in Answer :
       state' = handleAnswer(state, bank, SCORE_MULTIPLIER, currentQuestion(bank, state).id, answer)
  /\ advances' = Advanced(advances)
  /\ lastEvent' = "answer"
  /\ UNCHANGED <<libraryVars, results, appState>>

\* The Skip button.
HandleSkip ==
  /\ QuizControlsRendered
  /\ state' = handleSkip(state, bank, SCORE_MULTIPLIER)
  /\ advances' = Advanced(advances)
  /\ lastEvent' = "skip"
  /\ UNCHANGED <<libraryVars, results, appState>>

\* The Previous button (rendered disabled on the first question; the handler
\* itself floors the index at 0).
HandlePrevious ==
  /\ QuizControlsRendered
  /\ state' = handlePrevious(state)
  /\ advances' = -1
  /\ lastEvent' = "previous"
  /\ UNCHANGED <<libraryVars, results, appState>>

\* Quiz's effect on [state.completed, state.finalResults] calls onComplete,
\* which is Home's handleQuizComplete: the results are kept and shown.
HandleQuizComplete ==
  /\ appState = "QUIZ"
  /\ state.completed
  /\ state.finalResults # Null
  /\ results' = state.finalResults
  /\ appState' = "RESULTS"
  /\ lastEvent' = "complete"
  /\ UNCHANGED <<libraryVars, state, advances>>

\* The start buttons of Introduction: Home shows the quiz, a new Quiz mounts.
HandleStartQuiz ==
  /\ appState = "INTRODUCTION"
  /\ appState' = "QUIZ"
  /\ state' = InitialQuizState
  /\ advances' = 0
  /\ lastEvent' = "start"
  /\ UNCHANGED <<libraryVars, results>>

\* Results and DetailedReview are rendered only with results at hand.
ResultsRendered == appState = "RESULTS" /\ results # Null
DetailedReviewRendered == appState = "DETAILED_REVIEW" /\ results # Null

\* handleReset going back to the introduction with the results kept
HandleReset_KeepsResults ==
  /\ ResultsRendered \/ DetailedReviewRendered
  /\ appState' = "INTRODUCTION"
  /\ lastEvent' = "reset"
  /\ UNCHANGED <<libraryVars, results, state, advances>>

\* The reset buttons of Results and of DetailedReview.
HandleReset ==
  /\ ResultsRendered \/ DetailedReviewRendered
  /\ appState' = "INTRODUCTION"
  /\ results' = Null
  /\ lastEvent' = "reset"
  /\ UNCHANGED <<libraryVars, state, advances>>

\* The detailed-review buttons of Results.
HandleDetailedReview ==
  /\ ResultsRendered
  /\ appState' = "DETAILED_REVIEW"
  /\ lastEvent' = "review"
  /\ UNCHANGED <<libraryVars, results, state, advances>>

\* The back buttons of DetailedReview.
HandleBackToResults ==
  /\ DetailedReviewRendered
  /\ appState' = "RESULTS"
  /\ lastEvent' = "back"
  /\ UNCHANGED <<libraryVars, results, state, advances>>

\* the library before any of its functions is called
LibraryBeforeUse ==
  /\ SCORE_MULTIPLIER = Rat(1, 1)
  /\ question = questions[1]
  /\ axisDirection = Null
  /\ answers = <<>>
  /\ partyPositionsCache = Null
  /\ userPosition = Origin
  /\ thresholdArg = CLOSE_MATCH_THRESHOLD
  /\ partyDistances = Null
  /\ topAligned = Null
  /\ closestParty = Null
  /\ CacheIdle
  /\ CompareIdle

\* the library, the route and the detailed review at rest while the quiz runs
LibraryIdle ==
  /\ LibraryBeforeUse
  /\ ServerIdle
  /\ ReviewIdle

\* A Quiz just mounted by Home.
InitQuiz ==
  /\ bank \in QuizBanks
  /\ LibraryIdle
  /\ results = Null
  /\ state = InitialQuizState
  /\ appState = "QUIZ"
  /\ advances = 0
  /\ lastEvent = "start"

NextQuiz ==
  \/ HandleAnswer
  \/ HandleSkip
  \/ HandlePrevious
  \/ HandleQuizComplete

SpecQuiz == InitQuiz /\ [][NextQuiz]_vars

\* Home as first rendered.
InitHome ==
  /\ bank \in QuizBanks
  /\ LibraryIdle
  /\ results = Null
  /\ PageIdle

NextHome ==
  \/ HandleStartQuiz
  \/ HandleAnswer
  \/ HandleSkip
  \/ HandlePrevious
  \/ HandleQuizComplete
  \/ HandleDetailedReview
  \/ HandleBackToResults
  \/ HandleReset

SpecHome == InitHome /\ [][NextHome]_vars

\* ------------------------------------------------------------------------
\* The explain-stance route (api/explain-stance/route.ts)
\* ------------------------------------------------------------------------
RATE_LIMIT == 20
RATE_WINDOW == 60000

MaxTicks == 3

\* how far the server's clock moves between two looks at it
ClockStep == RATE_WINDOW \div 2

\* the keys POST derives from the request headers; "unknown" when none is set
Ips == {"203.0.113.7", "unknown"}

\* rateLimitMap.set(ip, record)
MapSet(map, key, record) == (key :> record) @@ map

\* checkRateLimit letting the request through when the count has reached the limit
checkRateLimit_OneMore(map, ip, t) ==
  IF ip \notin DOMAIN map \/ t > map[ip].resetTime
  THEN [allowed |-> TRUE, map |-> MapSet(map, ip, [count |-> 1, resetTime |-> t + RATE_WINDOW])]
  ELSE IF map[ip].count > RATE_LIMIT
       THEN [allowed |-> FALSE, map |-> map]
       ELSE [allowed |-> TRUE, map |-> MapSet(map, ip, [map[ip] EXCEPT !.count = map[ip].count + 1])]

\* checkRateLimit(ip) at time t: whether the request is allowed, and the map
\* it leaves behind
checkRateLimit(map, ip, t) ==
  IF ip \notin DOMAIN map \/ t > map[ip].resetTime
  THEN [allowed |-> TRUE, map |-> MapSet(map, ip, [count |-> 1, resetTime |-> t + RATE_WINDOW])]
  ELSE IF map[ip].count >= RATE_LIMIT
       THEN [allowed |-> FALSE, map |-> map]
       ELSE [allowed |-> TRUE, map |-> MapSet(map, ip, [map[ip] EXCEPT !.count = map[ip].count + 1])]

\* What POST answers: 429 before anything else when the limiter refuses, 500
\* without an API key, 400 for a body that is not JSON, else the event stream
\* fed by the upstream call.
PostResponse(ip, allowed, key, bodyOk) ==
  IF ~allowed
  THEN [ip |-> ip, status |-> 429, apiKeyRead |-> FALSE, upstreamCalled |-> FALSE]
  ELSE IF key = Null
       THEN [ip |-> ip, status |-> 500, apiKeyRead |-> TRUE, upstreamCalled |-> FALSE]
       ELSE IF ~bodyOk
            THEN [ip |-> ip, status |-> 400, apiKeyRead |-> TRUE, upstreamCalled |-> FALSE]
            ELSE [ip |-> ip, status |-> 200, apiKeyRead |-> TRUE, upstreamCalled |-> TRUE]

\* the requests accepted in the ip's window after this one: 1 when the request
\* opens a window, one more when it is accepted inside one
AcceptedAfter(counts, before, after, ip, allowed) ==
  IF ~allowed THEN counts
  ELSE IF ip \notin DOMAIN before \/ after[ip].resetTime # before[ip].resetTime
       THEN MapSet(counts, ip, 1)
       ELSE MapSet(counts, ip, counts[ip] + 1)

PostFrom(ip, bodyOk, check) ==
  /\ rateLimitMap' = check.map
  /\ response' = Some(PostResponse(ip, check.allowed, apiKey, bodyOk))
  /\ windowAccepted' = AcceptedAfter(windowAccepted, rateLimitMap, check.map, ip, check.allowed)

\* A request arrives at POST.
Post ==
  /\ \E ip \in Ips, bodyOk \in BOOLEAN :
       PostFrom(ip, bodyOk, checkRateLimit(rateLimitMap, ip, now))
  /\ UNCHANGED <<inputs, axisDirection, results, partyPositionsCache, partyDistances, topAligned, closestParty, cacheVars, compareVars, pageVars, reviewVars, now, apiKey>>

\* Time passes on the server.
Tick ==
  /\ now < MaxTicks * ClockStep
  /\ now' = now + ClockStep
  /\ UNCHANGED <<inputs, axisDirection, results, partyPositionsCache, partyDistances, topAligned, closestParty, cacheVars, compareVars, pageVars, reviewVars, rateLimitMap, windowAccepted, response, apiKey>>

\* The route just deployed, with or without the API key in its environment.
InitServer ==
  /\ bank = ExampleBank
  /\ LibraryBeforeUse
  /\ results = Null
  /\ PageIdle
  /\ ReviewIdle
  /\ rateLimitMap = <<>>
  /\ now = 0
  /\ windowAccepted = <<>>
  /\ response = Null
  /\ apiKey \in {Null, Some("key")}

NextServer == Post \/ Tick

SpecServer == InitServer /\ [][NextServer]_vars

\* ------------------------------------------------------------------------
\* The explanations of the detailed review (DetailedReview.tsx fetchExplanation
\* reading what the route streams)
\* ------------------------------------------------------------------------
MaxChunks == 2
MaxFetches == 2

\* `${questionId}-${partyId}` of two cards of the review
Keys == {"1-pap", "1-wp"}

\* n text events
RECURSIVE TextEvents(_)
TextEvents(n) == IF n = 0 THEN <<>> ELSE <<"text">> \o TextEvents(n - 1)

\* What the route puts on the stream before closing it: text events and the
\* final 'done'; an error event alone when the upstream answer is not ok or
\* has no body; text events and an error event when the upstream read throws.
ServerStreams ==
  {TextEvents(n) \o <<"done">> : n \in 0..MaxChunks}
    \cup {TextEvents(n) \o <<"error">> : n \in 0..MaxChunks}

\* the same streams as the client may get them: whole, ended early by a close,
\* or broken off so that reader.read() rejects ("abort")
ClientStreams ==
  ServerStreams
    \cup {TextEvents(n) : n \in 0..MaxChunks}
    \cup {TextEvents(n) \o <<"abort">> : n \in 0..MaxChunks}

\* what fetch() comes back with: a rejection, an error answered as JSON (the
\* route's 429, 500 and 400, with or without an error field), or a stream
Answers ==
  {[kind |-> "rejected", events |-> <<>>],
   [kind |-> "json", events |-> <<>>],
   [kind |-> "jsonWithoutError", events |-> <<>>]}
    \cup {[kind |-> "stream", events |-> s] : s \in ClientStreams}

\* the guard at the top of fetchExplanation: already loading or loaded
AlreadyLoadingOrLoaded(entries, key) ==
  key \in DOMAIN entries /\ (entries[key].loading \/ entries[key].error = Null)

\* the entry set when the fetch starts
LoadingEntry == [explanation |-> <<>>, loading |-> TRUE, error |-> Null]

\* the entry the outer catch sets
ErrorEntry(message) == [explanation |-> <<>>, loading |-> FALSE, error |-> Some(message)]

\* The message the outer catch gets for an answer that is no stream. For an
\* error answered as JSON the thrown message differs from 'Failed to fetch
\* explanation', so response.text() is called on the body response.json() has
\* read already, and that call's TypeError is what reaches the outer catch.
ErrorMessage(kind) ==
  IF kind = "rejected" THEN "Failed to fetch"
  ELSE IF kind = "json" THEN "body stream already read"
  ELSE "Failed to fetch explanation"

\* fullExplanation || prev[key]?.explanation || ''
FinalExplanation(full, prevEntry) == IF full # <<>> THEN full ELSE prevEntry.explanation

\* the entry after one event of the stream has been handled in the loop; an
\* error event is thrown inside the try whose catch skips unparseable lines
EntryAfterEvent(prevEntry, event, full) ==
  IF event = "text" THEN [prevEntry EXCEPT !.explanation = full, !.loading = TRUE]
  ELSE IF event = "done" THEN [explanation |-> FinalExplanation(full, prevEntry), loading |-> FALSE, error |-> Null]
  ELSE IF event = "abort" THEN ErrorEntry("network error")
  ELSE prevEntry

\* fullExplanation += data.text
FullAfterEvent(full, event) == IF event = "text" THEN full \o <<"chunk">> ELSE full

\* The respondent opens a card: fetchExplanation(questionId, partyId).
FetchExplanation(key) ==
  /\ fetchState[key] \in {"idle", "returned"}
  /\ fetches[key] < MaxFetches
  /\ ~AlreadyLoadingOrLoaded(explanations, key)
  /\ explanations' = MapSet(explanations, key, LoadingEntry)
  /\ fetchState' = [fetchState EXCEPT ![key] = "awaiting"]
  /\ fullExplanation' = [fullExplanation EXCEPT ![key] = <<>>]
  /\ fetches' = [fetches EXCEPT ![key] = fetches[key] + 1]
  /\ UNCHANGED <<inputs, axisDirection, results, partyPositionsCache, partyDistances, topAligned, closestParty, cacheVars, compareVars, pageVars, serverVars, incoming>>

\* await fetch(...) settles: the answer is examined.
ReceiveAnswer(key) ==
  /\ fetchState[key] = "awaiting"
  /\ \E answer \in Answers :
       IF answer.kind = "stream"
       THEN /\ incoming' = [incoming EXCEPT ![key] = answer.events]
            /\ fetchState' = [fetchState EXCEPT ![key] = "reading"]
            /\ UNCHANGED explanations
       ELSE /\ explanations' = MapSet(explanations, key, ErrorEntry(ErrorMessage(answer.kind)))
            /\ fetchState' = [fetchState EXCEPT ![key] = "returned"]
            /\ UNCHANGED incoming
  /\ UNCHANGED <<inputs, axisDirection, results, partyPositionsCache, partyDistances, topAligned, closestParty, cacheVars, compareVars, pageVars, serverVars, fullExplanation, fetches>>

\* await reader.read() settles: the stream has ended and the function returns,
\* or the next event is handled.
ReadStream(key) ==
  /\ fetchState[key] = "reading"
  /\ IF incoming[key] = <<>>
     THEN /\ fetchState' = [fetchState EXCEPT ![key] = "returned"]
          /\ UNCHANGED <<explanations, incoming, fullExplanation>>
     ELSE /\ fullExplanation' = [fullExplanation EXCEPT ![key] = FullAfterEvent(fullExplanation[key], Head(incoming[key]))]
          /\ explanations' = MapSet(explanations, key, EntryAfterEvent(explanations[key], Head(incoming[key]), FullAfterEvent(fullExplanation[key], Head(incoming[key]))))
          /\ incoming' = [incoming EXCEPT ![key] = IF Head(incoming[key]) = "abort" THEN <<>> ELSE Tail(incoming[key])]
          /\ fetchState' = [fetchState EXCEPT ![key] = IF Head(incoming[key]) = "abort" THEN "returned" ELSE "reading"]
  /\ UNCHANGED <<inputs, axisDirection, results, partyPositionsCache, partyDistances, topAligned, closestParty, cacheVars, compareVars, pageVars, serverVars, fetches>>

\* The detailed review just rendered.
InitReview ==
  /\ bank = ExampleBank
  /\ LibraryBeforeUse
  /\ results = Null
  /\ PageIdle
  /\ ServerIdle
  /\ explanations = <<>>
  /\ fetchState = [key \in Keys |-> "idle"]
  /\ incoming = [key \in Keys |-> <<>>]
  /\ fullExplanation = [key \in Keys |-> <<>>]
  /\ fetches = [key \in Keys |-> 0]

NextReview ==
  \/ \E key \in Keys : FetchExplanation(key)
  \/ \E key \in Keys : ReceiveAnswer(key)
  \/ \E key \in Keys : ReadStream(key)

SpecReview == InitReview /\ [][NextReview]_vars

\* Every await of a fetch under way settles in the end: the request is
\* answered or fails, the stream delivers its next event or ends. Nothing
\* obliges the respondent to open a card.
SpecReviewFair ==
  SpecReview /\ \A key \in Keys : WF_vars(ReceiveAnswer(key)) /\ WF_vars(ReadStream(key))

\* ------------------------------------------------------------------------
\* Properties
\* ------------------------------------------------------------------------
\* Sum of f[i] over the i of lo..hi that are in S.
RECURSIVE SumRange(_, _, _, _)
SumRange(S, f, lo, hi) ==
  IF lo > hi THEN 0
  ELSE IF lo = hi THEN (IF lo \in S THEN f[lo] ELSE 0)
  ELSE LET mid == (lo + hi) \div 2
       IN  SumRange(S, f, lo, mid) + SumRange(S, f, mid + 1, hi)

\* Sum of f over a set S of question indices.
SumOver(S, f) == SumRange(S, f, 1, Len(bank))

Sign(i) == IF i > 0 THEN 1 ELSE IF i < 0 THEN -1 ELSE 0

InAxisRange(r) == RLe(Int2R(-AXIS_RANGE), r) /\ RLe(r, Int2R(AXIS_RANGE))

\* Bank questions the respondent gave a non-zero answer to.
AnsweredIndices ==
  {i \in 1..Len(bank) : bank[i].id \in DOMAIN answers /\ answers[bank[i].id] # 0}

\* Those of them that count on an axis.
AxisIndices(axis) ==
  {i \in AnsweredIndices : bank[i].axis = axis /\ getAxisDirection(bank[i]) # 0}

AxisNumerator(axis) ==
  SumOver(AxisIndices(axis),
          [i \in AxisIndices(axis) |->
             answers[bank[i].id] * getAxisDirection(bank[i]) * bank[i].weight])

AxisDenominator(axis) ==
  SumOver(AxisIndices(axis), [i \in AxisIndices(axis) |-> 2 * bank[i].weight])

ExpectedAxisScore(axis) ==
  IF AxisDenominator(axis) = 0 THEN RZero
  ELSE clamp(RMul(RMul(Rat(AxisNumerator(axis), AxisDenominator(axis)),
                       Int2R(AXIS_RANGE)), SCORE_MULTIPLIER),
             Int2R(-AXIS_RANGE), Int2R(AXIS_RANGE))

\* C1: a respondent who answers every question as party E does is placed by
\* calculateScores exactly where calculatePartyPosition places E.
PositionSymmetry ==
  \A E \in Parties :
    (/\ results # Null
     /\ partyPositionsCache # Null
     /\ answers = StanceAnswers(bank, E))
    => /\ Val(results).economicScore = Val(partyPositionsCache)[E].x
       /\ Val(results).socialScore = Val(partyPositionsCache)[E].y

\* C2: both axis scores returned by calculateScores lie within
\* [-AXIS_RANGE, AXIS_RANGE], for every answer map and every multiplier.
ScoresWithinAxisRange ==
  results # Null
  => /\ InAxisRange(Val(results).economicScore)
     /\ InAxisRange(Val(results).socialScore)

\* C2 witness: the upper clamp was taken (the unclamped value exceeds the range).
ScoreClampedAtRange ==
  /\ results # Null
  /\ Val(results).economicScore = Int2R(AXIS_RANGE)
  /\ AxisDenominator("economic") > 0
  /\ RLt(Int2R(AXIS_RANGE),
         RMul(RMul(Rat(AxisNumerator("economic"), AxisDenominator("economic")),
                   Int2R(AXIS_RANGE)), SCORE_MULTIPLIER))

\* C3: each axis score is clamp((N/D) * AXIS_RANGE * SCORE_MULTIPLIER), N the sum
\* of answer * direction * weight and D the sum of 2 * weight over the bank
\* questions of the axis with a non-zero answer and a non-zero direction (0 when
\* there is none); the specification's example is normalized to 1.0 on both axes.
AxisScoreFormula ==
  results # Null
  => /\ Val(results).economicScore = ExpectedAxisScore("economic")
     /\ Val(results).socialScore = ExpectedAxisScore("social")
     /\ (bank = ExampleBank /\ answers = ExampleAnswers)
        => /\ AxisNumerator("economic") = 4 /\ AxisDenominator("economic") = 4
           /\ AxisNumerator("social") = 4 /\ AxisDenominator("social") = 4
           /\ Val(results).economicScore
                = clamp(RMul(Int2R(AXIS_RANGE), SCORE_MULTIPLIER),
                        Int2R(-AXIS_RANGE), Int2R(AXIS_RANGE))

\* C3 witness: the specification's example has been scored.
ExampleScored ==
  /\ bank = ExampleBank
  /\ answers = ExampleAnswers
  /\ SCORE_MULTIPLIER = Rat(1, 1)
  /\ results # Null
  /\ Val(results).economicScore = Int2R(AXIS_RANGE)
  /\ Val(results).socialScore = Int2R(AXIS_RANGE)

\* The answers given to questions that have an axis direction.
DirectedAnswers ==
  [id \in {k \in DOMAIN answers :
             Find(bank, k) # Null => getAxisDirection(Val(Find(bank, k))) # 0}
     |-> answers[id]]

\* C4: scoresByParty[p] is the sum of answer * partyScores[p] * weight over all
\* bank questions with a non-zero answer, those of direction 0 included; these
\* add nothing to the axis scores (example: 14 for X, -14 for Y).
PartyRawScoreFormula ==
  results # Null
  => /\ \A p \in Parties :
          Val(results).scoresByParty[p]
            = SumOver(AnsweredIndices,
                      [i \in AnsweredIndices |->
                         answers[bank[i].id] * bank[i].partyScores[p] * bank[i].weight])
     /\ LET directed == calculateScores(bank, SCORE_MULTIPLIER, DirectedAnswers)
        IN  /\ directed.economicScore = Val(results).economicScore
            /\ directed.socialScore = Val(results).socialScore
     /\ (bank = ExampleBank /\ answers = ExampleAnswers)
        => /\ Val(results).scoresByParty["pap"] = 14
           /\ Val(results).scoresByParty["wp"] = -14

\* C4 witness: an answered question of direction 0 changed a party's raw score.
NeutralDirectionQuestionScored ==
  /\ results # Null
  /\ \E i \in AnsweredIndices :
       /\ getAxisDirection(bank[i]) = 0
       /\ \E p \in Parties :
            Val(results).scoresByParty[p]
              # calculateScores(bank, SCORE_MULTIPLIER, DirectedAnswers).scoresByParty[p]

OppositionIds == {"wp", "psp", "sdp"}

\* C5: an opposition party whose stance is 0 is left out of the opposition mean
\* (the mean is taken over the non-zero opposition stances only).
OppositionMeanExcludesZero ==
  LET present == {p \in OppositionIds : question.partyScores[p] # 0}
      n == Cardinality(present)
      total == question.partyScores.wp + question.partyScores.psp
                 + question.partyScores.sdp
      scaledDifference == n * question.partyScores.pap - total
  IN  (axisDirection # Null /\ n > 0)
      => Val(axisDirection)
           = (IF 10 * Abs(scaledDifference) < n THEN 0 ELSE Sign(scaledDifference))

\* C6: getAxisDirection is +1 when pap exceeds the mean of wp, psp and sdp by at
\* least 0.1, -1 when it is below it by at least 0.1, 0 otherwise; the result
\* depends only on the sign of the difference.
DirectionIsSignOfDifference ==
  LET tripleDifference ==
        3 * question.partyScores.pap
          - (question.partyScores.wp + question.partyScores.psp
               + question.partyScores.sdp)
  IN  axisDirection # Null
      => /\ Val(axisDirection) \in {-1, 0, 1}
         /\ (Val(axisDirection) = 1) <=> (10 * tripleDifference >= 3)
         /\ (Val(axisDirection) = -1) <=> (10 * tripleDifference <= -3)
         /\ Val(axisDirection) = Sign(tripleDifference)

\* C6 witness: the smallest non-zero difference (one third) already gives -1.
SmallestDifferenceDirected ==
  /\ axisDirection # Null
  /\ 3 * question.partyScores.pap + 1
       = question.partyScores.wp + question.partyScores.psp + question.partyScores.sdp
  /\ Val(axisDirection) = -1

\* The percentage 100 - points, for points in 0..100.
PctOf(points) ==
  [nan |-> FALSE, n |-> BigOf(points * points), d |-> BigOf(100 * 100)]

\* |a - b| <= t for percentages that are numbers: with u and v the squares kept
\* by the two, (sqrt(u) - sqrt(v))^2 <= (t / 100)^2, that is
\* u + v - t^2 / 10^4 <= 2 * sqrt(u * v).
WithinPoints(a, b, t) ==
  LET scale == BigOf(10000)
      dd == BigMul(a.d, b.d)
      uv == BigMul(BigAdd(BigMul(a.n, b.d), BigMul(b.n, a.d)), scale)
      tt == BigMul(BigOf(t * t), dd)
  IN  \/ BigLe(uv, tt)
      \/ LET gap == BigSub(uv, tt)
             whole == BigMul(dd, scale)
         IN  BigLe(BigMul(BigMul(gap, gap), dd),
                   BigMul(BigMul(BigOf(4), BigMul(a.n, b.n)), BigMul(whole, whole)))

PartyIndex(p) == CHOOSE i \in 1..Len(PartyIds) : PartyIds[i] = p

\* C7: every alignment produced by calculatePartyDistances is a number in
\* [0, 100], and a party at distance 0 from the respondent has alignment
\* exactly 100.
AlignmentWithinBounds ==
  partyDistances # Null
  => \A i \in 1..Len(Val(partyDistances)) :
       LET e == Val(partyDistances)[i]
       IN  /\ ~e.alignment.nan
           /\ BigLe(e.alignment.n, e.alignment.d)
           /\ SurdIsZero(e.distance) => e.alignment.n = <<>>

\* C7 witness: the respondent stands exactly on a party's position while another
\* party is farther than the largest extent.
RespondentAtPartyPosition ==
  /\ partyDistances # Null
  /\ SurdIsZero(Val(partyDistances)[1].distance)
  /\ ~Val(partyDistances)[1].alignment.nan
  /\ Val(partyDistances)[1].alignment.n = <<>>
  /\ \E i \in 2..Len(Val(partyDistances)) :
       BigLt(BigMul(BigOf(4), Val(partyDistances)[i].alignment.d),
             BigMul(BigOf(25), Val(partyDistances)[i].alignment.n))

\* C8: calculatePartyDistances returns each of the four parties exactly once, in
\* non-decreasing order of distance, which is non-increasing in alignment; its
\* first entry is the party of getClosestParty and the best of
\* getTopAlignedParties.
RankingSortedByDistance ==
  /\ partyDistances # Null
     => LET ranking == Val(partyDistances)
        IN  /\ Len(ranking) = 4
            /\ \A p \in Parties :
                 Cardinality({i \in 1..Len(ranking) : ranking[i].party = p}) = 1
            /\ \A i \in 1..(Len(ranking) - 1) :
                 /\ ~SurdLt(ranking[i + 1].distance, ranking[i].distance)
                 /\ PctLe(ranking[i + 1].alignment, ranking[i].alignment)
            /\ closestParty # Null => Val(closestParty) = ranking[1].party
            /\ topAligned # Null => Val(topAligned).best = ranking[1]
  /\ (closestParty # Null /\ topAligned # Null)
     => Val(closestParty) = Val(topAligned).best.party

\* C8 witness: all three were called and the ranking does not start with the
\* first party of the list, which is strictly farther than the nearest.
RankingReordered ==
  /\ partyDistances # Null
  /\ closestParty # Null
  /\ topAligned # Null
  /\ Val(closestParty) # PartyIds[1]
  /\ \E i \in 2..4 :
       /\ Val(partyDistances)[i].party = PartyIds[1]
       /\ SurdLt(Val(partyDistances)[1].distance, Val(partyDistances)[i].distance)

\* C9: getTopAlignedParties(x, y, t) returns the first ranked party as best, as
\* closeOnes exactly the other parties whose alignment is within t points of
\* best's, in rank order, and isTie exactly when closeOnes is not empty;
\* alignments 61 and 58 are close for t = 9 and not for t = 2.
TopAlignedReportsCloseParties ==
  /\ (topAligned # Null /\ partyDistances # Null)
     => LET ranking == Val(partyDistances)
            IsWithin(e) == WithinPoints(e.alignment, ranking[1].alignment, thresholdArg)
        IN  /\ Val(topAligned).best = ranking[1]
            /\ Val(topAligned).closeOnes = SelectSeq(Tail(ranking), IsWithin)
            /\ Val(topAligned).isTie <=> Val(topAligned).closeOnes # <<>>
            /\ Val(topAligned).tieThreshold = thresholdArg
  /\ topAligned # Null
     => /\ PctDiffAtMost(PctOf(42), PctOf(39), CLOSE_MATCH_THRESHOLD)
        /\ ~PctDiffAtMost(PctOf(42), PctOf(39), 2)

\* C9 witness: a tie reported for threshold 9 whose runner-up is more than 2
\* points behind, while a farther party is left out.
TieWithinNineNotTwo ==
  /\ topAligned # Null
  /\ thresholdArg = CLOSE_MATCH_THRESHOLD
  /\ Val(topAligned).isTie
  /\ Len(Val(topAligned).closeOnes) < 3
  /\ ~WithinPoints(Val(topAligned).closeOnes[1].alignment,
                   Val(topAligned).best.alignment, 2)

\* C10: parties at exactly the same distance from the respondent are listed in
\* the order of the parties list (pap, wp, psp, sdp); when they are the nearest,
\* the first of them is best and the others are among closeOnes.
EqualDistanceKeepsListOrder ==
  /\ partyDistances # Null
     => \A i, j \in 1..Len(Val(partyDistances)) :
          (/\ i < j
           /\ SurdEq(Val(partyDistances)[i].distance, Val(partyDistances)[j].distance))
          => PartyIndex(Val(partyDistances)[i].party)
               < PartyIndex(Val(partyDistances)[j].party)
  /\ (partyDistances # Null /\ topAligned # Null)
     => \A j \in 2..Len(Val(partyDistances)) :
          SurdEq(Val(partyDistances)[1].distance, Val(partyDistances)[j].distance)
          => /\ PartyIndex(Val(topAligned).best.party)
                  < PartyIndex(Val(partyDistances)[j].party)
             /\ \E k \in 1..Len(Val(topAligned).closeOnes) :
                  Val(topAligned).closeOnes[k] = Val(partyDistances)[j]

\* C10 witness: two parties at different positions are the nearest, equally far
\* from the respondent, and the second of them is reported as a close one.
NearestPartiesEquidistant ==
  /\ partyDistances # Null
  /\ topAligned # Null
  /\ SurdEq(Val(partyDistances)[1].distance, Val(partyDistances)[2].distance)
  /\ Val(partyDistances)[1].position # Val(partyDistances)[2].position
  /\ Val(topAligned).closeOnes # <<>>
  /\ Val(topAligned).closeOnes[1].party = Val(partyDistances)[2].party

\* ---- getKeyDifferences ----
\* |stance of party1 - stance of party2| on question q
StanceGap(q) == Abs(q.partyScores[party1Id] - q.partyScores[party2Id])

\* the ids of the questions getKeyDifferences reported
KeptIds == {Val(keyDifferences)[i].questionId : i \in 1..Len(Val(keyDifferences))}

\* C11: every entry getKeyDifferences returns is a bank question on which the
\* two parties' stances are at least 2 apart, the entries are in
\* non-increasing differenceScore order, there are at most `limit` of them,
\* and a question is left out only for a difference below 2 or, the list
\* being full, for a difference no larger than that of any entry kept.
KeyDifferencesLargestFirst ==
  keyDifferences # Null =>
    LET kd == Val(keyDifferences)
    IN  /\ Len(kd) <= limitArg
        /\ \A i \in 1..Len(kd) :
             /\ Abs(kd[i].party1Answer - kd[i].party2Answer) >= 2
             /\ kd[i].differenceScore = Abs(kd[i].party1Answer - kd[i].party2Answer)
             /\ \E k \in 1..Len(bank) :
                  /\ bank[k].id = kd[i].questionId
                  /\ bank[k].partyScores[party1Id] = kd[i].party1Answer
                  /\ bank[k].partyScores[party2Id] = kd[i].party2Answer
        /\ \A i, j \in 1..Len(kd) : kd[i].questionId = kd[j].questionId => i = j
        /\ \A i \in 1..(Len(kd) - 1) : kd[i].differenceScore >= kd[i + 1].differenceScore
        /\ \A k \in 1..Len(bank) :
             (bank[k].id \notin KeptIds /\ StanceGap(bank[k]) >= 2) =>
               /\ Len(kd) = limitArg
               /\ \A i \in 1..Len(kd) : kd[i].differenceScore >= StanceGap(bank[k])

\* The list was cut short: five entries were kept, not all of one difference,
\* and a question with a difference of at least 2 was left out.
KeyDifferencesTruncated ==
  /\ keyDifferences # Null
  /\ limitArg = DefaultKeyDifferencesLimit
  /\ Len(Val(keyDifferences)) = limitArg
  /\ Val(keyDifferences)[1].differenceScore > Val(keyDifferences)[limitArg].differenceScore
  /\ \E k \in 1..Len(bank) : bank[k].id \notin KeptIds /\ StanceGap(bank[k]) >= 2

\* The alignment the rule of closeness gives a respondent answering u, a
\* skipped question having no answer: "both" within 1 of both stances,
\* otherwise the party nearer by at least 1, otherwise "neither".
AlignmentRule(u, p1, p2) ==
  IF u = Null \/ u = Some(0) THEN "neither"
  ELSE IF Abs(Val(u) - p1) <= 1 /\ Abs(Val(u) - p2) <= 1 THEN "both"
  ELSE IF Abs(Val(u) - p1) + 1 <= Abs(Val(u) - p2) THEN party1Id
  ELSE IF Abs(Val(u) - p2) + 1 <= Abs(Val(u) - p1) THEN party2Id
  ELSE "neither"

\* C12: on every entry getKeyDifferences returns, userAlignsWith is "both"
\* exactly when the respondent's non-zero answer is within 1 of both stances;
\* otherwise it is party1Id exactly when the answer is nearer party1's stance
\* by at least 1, party2Id exactly when it is nearer party2's by at least 1,
\* and "neither" in every other case, a skipped or 0 answer included.
UserAlignsWithNearerParty ==
  keyDifferences # Null =>
    \A i \in 1..Len(Val(keyDifferences)) :
      LET e == Val(keyDifferences)[i]
          u == e.userAnswer
          answered == u # Null /\ u # Some(0)
          near1 == answered /\ Abs(Val(u) - e.party1Answer) <= 1
          near2 == answered /\ Abs(Val(u) - e.party2Answer) <= 1
      IN  /\ e.userAnswer = UserAnswer(answers, [id |-> e.questionId])
          /\ e.userAlignsWith = AlignmentRule(u, e.party1Answer, e.party2Answer)
          /\ e.userAlignsWith \in {"both", "neither", party1Id, party2Id}
          /\ (e.userAlignsWith = "both") <=> (near1 /\ near2)
          /\ ~answered => e.userAlignsWith = "neither"
          /\ (answered /\ ~(near1 /\ near2)) =>
               /\ (e.userAlignsWith = party1Id) <=>
                    (Abs(Val(u) - e.party1Answer) <= Abs(Val(u) - e.party2Answer) - 1)
               /\ (e.userAlignsWith = party2Id) <=>
                    (Abs(Val(u) - e.party2Answer) <= Abs(Val(u) - e.party1Answer) - 1)

\* An entry whose non-zero answer lies between two stances 2 apart, 1 from each.
AnswerBetweenTheStances ==
  /\ keyDifferences # Null
  /\ \E i \in 1..Len(Val(keyDifferences)) :
       LET e == Val(keyDifferences)[i]
       IN  /\ e.userAnswer # Null
           /\ e.userAnswer # Some(0)
           /\ Abs(Val(e.userAnswer) - e.party1Answer) = 1
           /\ Abs(Val(e.userAnswer) - e.party2Answer) = 1
           /\ e.userAlignsWith = "both"

\* ---- getCommonGround ----
\* the bank question an entry of getCommonGround was made from (an entry
\* carries the question's text, and no two questions share a text)
QuestionOf(entry) == CHOOSE k \in 1..Len(bank) : bank[k].id = entry.questionText

\* min(|stance of party1|, |stance of party2|) on question q
AgreementStrength(q) ==
  IF Abs(q.partyScores[party1Id]) < Abs(q.partyScores[party2Id])
  THEN Abs(q.partyScores[party1Id])
  ELSE Abs(q.partyScores[party2Id])

\* C13: every entry getCommonGround returns comes from a bank question on
\* which both parties' stances are non-zero and of the same sign, the entries
\* are in non-increasing order of min(|stance1|, |stance2|), and there are at
\* most `limit` of them.
CommonGroundSharedAndStrongestFirst ==
  commonGround # Null =>
    LET cg == Val(commonGround)
    IN  /\ Len(cg) <= limitArg
        /\ \A i \in 1..Len(cg) :
             /\ \E k \in 1..Len(bank) : bank[k].id = cg[i].questionText
             /\ bank[QuestionOf(cg[i])].partyScores[party1Id] # 0
             /\ bank[QuestionOf(cg[i])].partyScores[party2Id] # 0
             /\ (bank[QuestionOf(cg[i])].partyScores[party1Id] > 0)
                  <=> (bank[QuestionOf(cg[i])].partyScores[party2Id] > 0)
        /\ \A i \in 1..(Len(cg) - 1) :
             AgreementStrength(bank[QuestionOf(cg[i])])
               >= AgreementStrength(bank[QuestionOf(cg[i + 1])])

\* The list is full and passes over a weaker agreement that comes earlier in
\* the bank than its last entry, while the bank has a question on which one
\* of the two parties takes no side and one on which they take opposite sides.
WeakerAgreementPassedOver ==
  /\ commonGround # Null
  /\ limitArg > 0
  /\ Len(Val(commonGround)) = limitArg
  /\ \E k \in 1..Len(bank) :
       /\ k < QuestionOf(Val(commonGround)[limitArg])
       /\ bank[k].partyScores[party1Id] * bank[k].partyScores[party2Id] > 0
       /\ AgreementStrength(bank[k])
            < AgreementStrength(bank[QuestionOf(Val(commonGround)[limitArg])])
       /\ \A i \in 1..limitArg : QuestionOf(Val(commonGround)[i]) # k
  /\ \E k \in 1..Len(bank) :
       bank[k].partyScores[party1Id] = 0 /\ bank[k].partyScores[party2Id] # 0
  /\ \E k \in 1..Len(bank) :
       bank[k].partyScores[party1Id] * bank[k].partyScores[party2Id] < 0

\* ---- calculateScoreImpact ----
\* the ids of the bank questions the respondent gave a non-zero answer to
NonZeroAnswered ==
  {bank[k].id : k \in {j \in 1..Len(bank) :
                         bank[j].id \in DOMAIN answers /\ answers[bank[j].id] # 0}}

\* C14: calculateScoreImpact returns exactly one entry for each bank question
\* with a non-zero answer and none for any other question, with
\* party1Impact = answer * stanceA * weight, party2Impact = answer * stanceB *
\* weight and netImpact = party1Impact - party2Impact, in non-increasing order
\* of |netImpact|; and netImpact is positive exactly when the answer times A's
\* stance exceeds the answer times B's stance.
ImpactPerAnsweredQuestion ==
  scoreImpact # Null =>
    LET im == Val(scoreImpact)
    IN  /\ {im[i].questionId : i \in 1..Len(im)} = NonZeroAnswered
        /\ Len(im) = Cardinality(NonZeroAnswered)
        /\ \A i \in 1..Len(im) :
             LET q == Val(Find(bank, im[i].questionId))
                 u == answers[im[i].questionId]
             IN  /\ im[i].userAnswer = u
                 /\ im[i].party1Impact = u * q.partyScores[party1Id] * q.weight
                 /\ im[i].party2Impact = u * q.partyScores[party2Id] * q.weight
                 /\ im[i].netImpact = im[i].party1Impact - im[i].party2Impact
                 /\ (im[i].netImpact > 0)
                      <=> (u * q.partyScores[party1Id] > u * q.partyScores[party2Id])
        /\ \A i \in 1..(Len(im) - 1) : Abs(im[i].netImpact) >= Abs(im[i + 1].netImpact)

\* Impacts were reported for some of the bank's questions only, one of them
\* in B's favour, and the most decisive question is not the first answered.
DecisiveQuestionFirst ==
  /\ scoreImpact # Null
  /\ Len(Val(scoreImpact)) > 1
  /\ Len(Val(scoreImpact)) < Len(bank)
  /\ \E i \in 1..Len(Val(scoreImpact)) : Val(scoreImpact)[i].netImpact < 0
  /\ \E i \in 2..Len(Val(scoreImpact)) :
       /\ Val(scoreImpact)[i].questionId < Val(scoreImpact)[1].questionId
       /\ Abs(Val(scoreImpact)[i].netImpact) < Abs(Val(scoreImpact)[1].netImpact)

\* ---- calculateScores: category breakdown, absent and unknown answers ----
\* Answered questions of category c that have a direction.
CategoryCounted(c) ==
  {i \in AnsweredIndices : bank[i].category = c /\ getAxisDirection(bank[i]) # 0}

\* Sum of answer * direction over those of them that are on the axis.
CategoryAxisSum(c, axis) ==
  SumOver({i \in CategoryCounted(c) : bank[i].axis = axis},
          [i \in {j \in CategoryCounted(c) : bank[j].axis = axis} |->
             answers[bank[i].id] * getAxisDirection(bank[i])])

CategoryAverage(c, axis) ==
  IF Cardinality(CategoryCounted(c)) = 0 THEN RZero
  ELSE Rat(CategoryAxisSum(c, axis), Cardinality(CategoryCounted(c)))

Unanswered == {bank[k].id : k \in 1..Len(bank)} \ DOMAIN answers

\* The answer map with question id answered 0.
AnsweredZero(id) == answers @@ (id :> 0)

\* The question and the alignment of every entry of a list of key differences.
Alignments(differences) ==
  [i \in 1..Len(differences) |->
     <<differences[i].questionId, differences[i].userAlignsWith>>]

\* C16: answering 0 a bank question the answer map does not answer changes
\* none of economicScore, socialScore, scoresByParty and scoresByCategory
\* returned by calculateScores, no entry returned by calculateScoreImpact and
\* no userAlignsWith returned by getKeyDifferences.
ZeroAnswerSameAsNoAnswer ==
  \A id \in Unanswered :
    /\ results # Null =>
         LET zero == calculateScores(bank, SCORE_MULTIPLIER, AnsweredZero(id))
         IN  /\ zero.economicScore = Val(results).economicScore
             /\ zero.socialScore = Val(results).socialScore
             /\ zero.scoresByParty = Val(results).scoresByParty
             /\ zero.scoresByCategory = Val(results).scoresByCategory
    /\ scoreImpact # Null =>
         calculateScoreImpact(bank, AnsweredZero(id), party1Id, party2Id) = Val(scoreImpact)
    /\ keyDifferences # Null =>
         Alignments(getKeyDifferences(bank, party1Id, party2Id, AnsweredZero(id), limitArg))
           = Alignments(Val(keyDifferences))

\* The three functions have returned for an answer map that answers some
\* questions with a non-zero answer and leaves out a question on which the
\* two parties are reported to differ.
DifferenceLeftUnanswered ==
  /\ results # Null
  /\ scoreImpact # Null
  /\ Len(Val(scoreImpact)) > 0
  /\ keyDifferences # Null
  /\ \E i \in 1..Len(Val(keyDifferences)) :
       /\ Val(keyDifferences)[i].questionId \in Unanswered
       /\ Val(keyDifferences)[i].userAlignsWith = "neither"
  /\ \E i \in 1..Len(Val(keyDifferences)) :
       Val(keyDifferences)[i].userAlignsWith # "neither"

\* economicScore, socialScore, scoresByParty and scoresByCategory of a result
ScoreFields(r) == <<r.economicScore, r.socialScore, r.scoresByParty, r.scoresByCategory>>

\* Keys that are the id of no bank question.
UnknownKeys == {0, UnknownId} \ QuestionIds(bank)

\* The entries of the answer map whose key is the id of a bank question.
KnownAnswers == [id \in DOMAIN answers \cap QuestionIds(bank) |-> answers[id]]

\* C17: an entry whose key is the id of no bank question changes none of
\* economicScore, socialScore, scoresByParty and scoresByCategory: the result
\* of an answer map is that of the map without its unknown keys, and that of
\* the map with one more unknown key, whatever the answer under it.
UnknownKeyIgnored ==
  results # Null =>
    /\ ScoreFields(calculateScores(bank, SCORE_MULTIPLIER, KnownAnswers))
         = ScoreFields(Val(results))
    /\ \A key \in UnknownKeys \ DOMAIN answers : \A v \in Answer :
         ScoreFields(calculateScores(bank, SCORE_MULTIPLIER, answers @@ (key :> v)))
           = ScoreFields(Val(results))

\* Scores were computed from an answer map that holds an unknown key next to
\* a non-zero answer to a bank question.
UnknownKeyAmongAnswers ==
  /\ results # Null
  /\ UnknownId \in DOMAIN answers
  /\ answers[UnknownId] # 0
  /\ AnsweredIndices # {}
  /\ \E p \in Parties : Val(results).scoresByParty[p] # 0

\* The bank without the questions of an axis.
BankWithout(axis) ==
  LET OffAxis(q) == q.axis # axis
  IN  SelectSeq(bank, OffAxis)

\* C18: when the answer map holds no non-zero answer to a question of an axis
\* that has a direction, calculateScores returns exactly 0 for that axis, and
\* for the other axis what it returns when the first axis's questions are
\* not in the bank.
AxisWithoutAnswersIsZero ==
  results # Null =>
    /\ AxisIndices("economic") = {} =>
         /\ Val(results).economicScore = RZero
         /\ Val(results).socialScore
              = calculateScores(BankWithout("economic"), SCORE_MULTIPLIER, answers).socialScore
    /\ AxisIndices("social") = {} =>
         /\ Val(results).socialScore = RZero
         /\ Val(results).economicScore
              = calculateScores(BankWithout("social"), SCORE_MULTIPLIER, answers).economicScore

\* The only answered question of the economic axis has no direction, and the
\* social axis got a score other than 0.
OnlyNeutralQuestionAnsweredOnAxis ==
  /\ results # Null
  /\ AxisIndices("economic") = {}
  /\ \E i \in AnsweredIndices : bank[i].axis = "economic"
  /\ Val(results).economicScore = RZero
  /\ Val(results).socialScore # RZero

\* C19: calculateScores of the empty answer map returns economicScore = 0,
\* socialScore = 0, a raw score of 0 for each of the four parties, and 0 on
\* both axes for each of the eight categories.
NoAnswersScoreZero ==
  (results # Null /\ answers = <<>>) =>
    /\ Val(results).economicScore = RZero
    /\ Val(results).socialScore = RZero
    /\ DOMAIN Val(results).scoresByParty = {"pap", "wp", "psp", "sdp"}
    /\ \A p \in {"pap", "wp", "psp", "sdp"} : Val(results).scoresByParty[p] = 0
    /\ DOMAIN Val(results).scoresByCategory = QuestionCategories
    /\ Cardinality(QuestionCategories) = 8
    /\ \A c \in QuestionCategories :
         /\ Val(results).scoresByCategory[c].economic = RZero
         /\ Val(results).scoresByCategory[c].social = RZero

\* The shipped bank was scored for a respondent who answered nothing.
EmptyAnswersScored ==
  /\ results # Null
  /\ answers = <<>>
  /\ bank = questions
  /\ Val(results).answers = <<>>

\* ---- the party-position cache ----
\* No lookup has been made: the cache is null and nothing was computed.
CacheUntouched ==
  /\ partyPositionsCache = Null
  /\ \A p \in Parties : positionRuns[p] = 0
  /\ partyPosition = Null
  /\ meanPosition = Null
  /\ partyDistances = Null

\* The cache holds, for every party of the list, the position that the one
\* run of calculatePartyPosition for it returned, and what the lookups
\* returned is what the cache holds.
CacheFilledOnce ==
  /\ partyPositionsCache # Null
  /\ DOMAIN Val(partyPositionsCache) = {PartyIds[i] : i \in 1..Len(PartyIds)}
  /\ \A p \in Parties :
       /\ positionRuns[p] = 1
       /\ Val(partyPositionsCache)[p] = calculatePartyPosition(bank, p)
  /\ partyPosition # Null =>
       Val(partyPosition).position = Val(partyPositionsCache)[Val(partyPosition).party]
  /\ meanPosition # Null =>
       /\ Val(meanPosition).x
            = RDiv(RAdd(RAdd(Val(partyPositionsCache)["pap"].x, Val(partyPositionsCache)["wp"].x),
                        RAdd(Val(partyPositionsCache)["psp"].x, Val(partyPositionsCache)["sdp"].x)),
                   Int2R(4))
       /\ Val(meanPosition).y
            = RDiv(RAdd(RAdd(Val(partyPositionsCache)["pap"].y, Val(partyPositionsCache)["wp"].y),
                        RAdd(Val(partyPositionsCache)["psp"].y, Val(partyPositionsCache)["sdp"].y)),
                   Int2R(4))
  /\ partyDistances # Null =>
       \A i \in 1..Len(Val(partyDistances)) :
         Val(partyDistances)[i].position
           = Val(partyPositionsCache)[Val(partyDistances)[i].party]

\* A call on the null cache fills it; a call on the filled cache neither
\* writes it nor runs calculatePartyPosition.
CacheWrittenByFirstCallOnly ==
  /\ partyPositionsCache = Null => partyPositionsCache' # Null
  /\ partyPositionsCache # Null =>
       /\ partyPositionsCache' = partyPositionsCache
       /\ positionRuns' = positionRuns

\* C20: across any sequence of getPartyPosition, getAllPartyPositions,
\* getPartyMeanPosition and calculatePartyDistances calls the cache is null
\* until the first call, is filled for every party of the list by that call
\* and is never written again: calculatePartyPosition has run exactly once
\* per party and every lookup returns the position stored then.
PartyPositionsComputedOnce ==
  /\ CacheUntouched
  /\ [](CacheUntouched \/ CacheFilledOnce)
  /\ [][CacheWrittenByFirstCallOnly]_vars

\* Every kind of lookup has returned after the cache was filled.
LookupsServedFromCache ==
  /\ CacheFilledOnce
  /\ partyPosition # Null
  /\ meanPosition # Null
  /\ partyDistances # Null

\* ---- calculateScoreImpact against calculateScores ----
\* The sums of the three impact columns of a list of impacts.
ImpactSums(impacts) ==
  [party1 |-> IntSum([i \in 1..Len(impacts) |-> impacts[i].party1Impact]),
   party2 |-> IntSum([i \in 1..Len(impacts) |-> impacts[i].party2Impact]),
   net |-> IntSum([i \in 1..Len(impacts) |-> impacts[i].netImpact])]

\* C27: the party1Impact values of calculateScoreImpact(answers, A, B) sum to
\* calculateScores(answers).scoresByParty[A], the party2Impact values sum to
\* scoresByParty[B], and the netImpact values sum to the gap between the two
\* raw scores.
ImpactsSumToRawScores ==
  (results # Null /\ scoreImpact # Null) =>
    /\ ImpactSums(Val(scoreImpact)).party1 = Val(results).scoresByParty[party1Id]
    /\ ImpactSums(Val(scoreImpact)).party2 = Val(results).scoresByParty[party2Id]
    /\ ImpactSums(Val(scoreImpact)).net
         = Val(results).scoresByParty[party1Id] - Val(results).scoresByParty[party2Id]

\* Both functions have returned for the shipped bank, with impacts on several
\* questions, some of them of weight above 1, and two different raw scores.
ImpactsOfSeveralQuestionsSummed ==
  /\ results # Null
  /\ scoreImpact # Null
  /\ bank = questions
  /\ Len(Val(scoreImpact)) > 1
  /\ Val(results).scoresByParty[party1Id] # 0
  /\ Val(results).scoresByParty[party1Id] # Val(results).scoresByParty[party2Id]

\* C30: with stances and answers that are integers in -2..2, an entry of
\* getKeyDifferences has userAlignsWith = "neither" only when the respondent
\* skipped the question or answered 0: a non-zero answer is classified as
\* "both" or as one of the two party ids.
NonZeroAnswerAlwaysClassified ==
  keyDifferences # Null =>
    \A i \in 1..Len(Val(keyDifferences)) :
      LET e == Val(keyDifferences)[i]
      IN  /\ e.party1Answer \in Answer
          /\ e.party2Answer \in Answer
          /\ e.userAnswer # Null => Val(e.userAnswer) \in Answer
          /\ (e.userAnswer # Null /\ e.userAnswer # Some(0)) =>
               /\ e.userAlignsWith \in {"both", party1Id, party2Id}
               /\ e.userAlignsWith # "neither"
          /\ e.userAlignsWith = "neither" =>
               (e.userAnswer = Null \/ e.userAnswer = Some(0))

\* A non-zero answer 1 from one stance and 2 from the other, the smallest
\* margin, was given to the nearer party.
NearerByOneClassified ==
  /\ keyDifferences # Null
  /\ \E i \in 1..Len(Val(keyDifferences)) :
       LET e == Val(keyDifferences)[i]
       IN  /\ e.userAnswer # Null
           /\ e.userAnswer # Some(0)
           /\ Abs(Val(e.userAnswer) - e.party1Answer) = 2
           /\ Abs(Val(e.userAnswer) - e.party2Answer) = 1
           /\ e.userAlignsWith = party2Id

\* ---- alignment floor and distances without normalization ----
\* Not all parties are at one point.
PartiesSpread ==
  \E p \in Parties, q \in Parties :
    calculatePartyPosition(bank, p) # calculatePartyPosition(bank, q)

\* C28: when the parties' positions are not all one point, every alignment
\* is a number that is at least 20, the share distance / maxDistance being at
\* most 2 / 2.5 (its square at most 16 / 25), so the clamp at 0 is not taken;
\* and an alignment is 100 only at distance 0.
AlignmentAtLeastTwenty ==
  (partyDistances # Null /\ PartiesSpread) =>
    \A i \in 1..Len(Val(partyDistances)) :
      LET e == Val(partyDistances)[i]
      IN  /\ ~e.alignment.nan
          /\ BigLe(BigMul(BigOf(25), e.alignment.n), BigMul(BigOf(16), e.alignment.d))
          /\ (e.alignment.n = <<>>) <=> SurdIsZero(e.distance)

\* The respondent is opposite the farthest party across the party mean: that
\* party's alignment is exactly 20.
AlignmentExactlyTwenty ==
  /\ partyDistances # Null
  /\ PartiesSpread
  /\ \E i \in 1..Len(Val(partyDistances)) :
       /\ ~Val(partyDistances)[i].alignment.nan
       /\ BigMul(BigOf(25), Val(partyDistances)[i].alignment.n)
            = BigMul(BigOf(16), Val(partyDistances)[i].alignment.d)

\* calculatePartyDistances as it would be with the party mean at the origin,
\* that is without normalization.
DistancesWithoutNormalization ==
  DistancesAround(getAllPartyPositions(partyPositionsCache), Origin,
                  userPosition.x, userPosition.y)

\* C29: every distance calculatePartyDistances reports is the Euclidean
\* distance between the un-normalized respondent and party positions
\* (distance squared = economicDiff squared + socialDiff squared), and the
\* ranking is, party by party and distance by distance, the one computed
\* without subtracting the party mean.
DistanceIgnoresNormalization ==
  partyDistances # Null =>
    /\ \A i \in 1..Len(Val(partyDistances)) :
         LET e == Val(partyDistances)[i]
         IN  /\ e.economicDiff = RSub(Val(partyPositionsCache)[e.party].x, userPosition.x)
             /\ e.socialDiff = RSub(Val(partyPositionsCache)[e.party].y, userPosition.y)
             /\ SurdEq(e.distance, Hypot(e.economicDiff, e.socialDiff))
    /\ LET plain == DistancesWithoutNormalization
       IN  /\ Len(plain) = Len(Val(partyDistances))
           /\ \A i \in 1..Len(Val(partyDistances)) :
                /\ plain[i].party = Val(partyDistances)[i].party
                /\ SurdEq(plain[i].distance, Val(partyDistances)[i].distance)

\* The party mean is not the origin and normalization changed an alignment
\* percentage, the distances being what they are without it.
NormalizationChangesAlignmentOnly ==
  /\ partyDistances # Null
  /\ getPartyMeanPosition(partyPositionsCache) # Origin
  /\ \E i \in 1..Len(Val(partyDistances)) :
       /\ SurdEq(DistancesWithoutNormalization[i].distance, Val(partyDistances)[i].distance)
       /\ ~SurdIsZero(Val(partyDistances)[i].distance)
       /\ ~SurdEq([n |-> DistancesWithoutNormalization[i].alignment.n,
                   d |-> DistancesWithoutNormalization[i].alignment.d],
                  [n |-> Val(partyDistances)[i].alignment.n,
                   d |-> Val(partyDistances)[i].alignment.d])


\* ------------------------------------------------------------------------
\* C21: in the Quiz component, whatever answers, skips and steps back led
\* there, every state with completed = true has finalResults equal to
\* calculateScores of the answers held, and from a completed state on neither
\* the answers nor finalResults (nor completed) changes again.
QuizFrozenOnceCompleted ==
  /\ [](state.completed =>
          state.finalResults = Some(calculateScores(bank, SCORE_MULTIPLIER, state.answers)))
  /\ [][state.completed =>
          /\ state'.completed
          /\ state'.answers = state.answers
          /\ state'.finalResults = state.finalResults]_vars

\* a quiz completed after a step back, with answers given, and handed to Home
CompletedQuizHandedOver ==
  /\ state.completed
  /\ appState = "RESULTS"
  /\ advances = -1
  /\ DOMAIN state.answers # {}
  /\ results = state.finalResults


\* ------------------------------------------------------------------------
\* C22: in the Quiz component currentQuestionIndex is always one of
\* 0..questions.length-1; an answer or skip below the last index raises it by
\* exactly one and does not complete, an answer or skip at the last index
\* completes and leaves the index, Previous lowers it by one but not below 0;
\* and as long as Previous has not been used, the quiz is completed exactly
\* when questions.length answers or skips have been made.
LastIndex(qs) == Len(qs) - 1

AdvanceStep ==
  IF state.currentQuestionIndex < LastIndex(bank)
  THEN /\ state'.currentQuestionIndex = state.currentQuestionIndex + 1
       /\ ~state'.completed
  ELSE /\ state'.currentQuestionIndex = state.currentQuestionIndex
       /\ state'.completed

PreviousStep ==
  state'.currentQuestionIndex =
    IF state.currentQuestionIndex = 0 THEN 0 ELSE state.currentQuestionIndex - 1

IndexWithinQuestions ==
  /\ [](state.currentQuestionIndex \in 0..LastIndex(bank))
  /\ [][(HandleAnswer \/ HandleSkip) => AdvanceStep]_vars
  /\ [][HandlePrevious => PreviousStep]_vars
  /\ [](advances >= 0 =>
          IF advances = Len(bank)
          THEN state.completed
          ELSE ~state.completed /\ state.currentQuestionIndex = advances)

\* three questions answered or skipped one after the other complete the quiz
StraightThroughCompletes ==
  /\ Len(bank) = 3
  /\ advances = Len(bank)
  /\ state.completed
  /\ state.currentQuestionIndex = LastIndex(bank)


\* ------------------------------------------------------------------------
\* C23: in the Quiz component a skip and a step back leave the answers as
\* they are, and an answer changes at most the entry of the question it is
\* given for; so an answer given earlier is still held after the respondent
\* went back and skipped that question, and the final scores are those of
\* the answers held, that one included.
OtherEntriesKept(before, after, questionId) ==
  /\ DOMAIN after = DOMAIN before \cup {questionId}
  /\ \A id \in DOMAIN before \ {questionId} : after[id] = before[id]

AnswersChangedOnlyByAnswering ==
  /\ [][(HandleSkip \/ HandlePrevious) => state'.answers = state.answers]_vars
  /\ [][HandleAnswer =>
          OtherEntriesKept(state.answers, state'.answers, currentQuestion(bank, state).id)]_vars
  /\ [](state.completed =>
          /\ state.finalResults # Null
          /\ Val(state.finalResults).answers = state.answers
          /\ Val(state.finalResults).scoresByParty =
               calculateScores(bank, SCORE_MULTIPLIER, state.answers).scoresByParty)

\* the respondent went back and has just skipped a question answered before
SkippedQuestionKeepsAnswer ==
  /\ lastEvent = "skip"
  /\ advances = -1
  /\ state.currentQuestionIndex >= 1
  /\ bank[state.currentQuestionIndex].id \in DOMAIN state.answers
  /\ state.answers[bank[state.currentQuestionIndex].id] # 0


\* ------------------------------------------------------------------------
\* C24: in the Home page, whatever the respondent does on the screens shown,
\* the results screen and the detailed review are on only while results is
\* not null, the detailed review is entered only from the results screen,
\* and a reset always leads to the introduction with results null.
AppStates == {"INTRODUCTION", "QUIZ", "RESULTS", "DETAILED_REVIEW"}

ResultScreensHaveResults ==
  /\ [](appState \in AppStates)
  /\ [](appState \in {"RESULTS", "DETAILED_REVIEW"} => results # Null)
  /\ [][(appState' = "DETAILED_REVIEW" /\ appState # "DETAILED_REVIEW") =>
          appState = "RESULTS"]_vars
  /\ [][HandleReset => (appState' = "INTRODUCTION" /\ results' = Null)]_vars
  /\ [][lastEvent' = "reset" => (appState' = "INTRODUCTION" /\ results' = Null)]_vars

\* back at the introduction after a completed quiz was reset
ResetAfterCompletedQuiz ==
  /\ lastEvent = "reset"
  /\ state.completed
  /\ appState = "INTRODUCTION"
  /\ results = Null


\* ------------------------------------------------------------------------
\* C25: per client ip the route accepts at most RATE_LIMIT requests from the
\* first request of a window up to that window's resetTime, RATE_WINDOW
\* later; a further request of the ip inside the window is answered 429
\* without the API key being read or the upstream service called, and leaves
\* the map as it is; a request of an ip unknown so far, or arriving after
\* resetTime, is accepted and opens a window with count 1; and a request
\* leaves the records of the other ips alone.
InWindow(ip) == ip \in DOMAIN rateLimitMap /\ now <= rateLimitMap[ip].resetTime

\* this step is a request of the given ip
RequestOf(ip) == Post /\ Val(response').ip = ip

Rejected == Val(response').status = 429

OtherRecordsKept(ip) ==
  /\ DOMAIN rateLimitMap' = DOMAIN rateLimitMap \cup {ip}
  /\ \A other \in DOMAIN rateLimitMap \ {ip} : rateLimitMap'[other] = rateLimitMap[other]

RequestOutcome(ip) ==
  /\ OtherRecordsKept(ip)
  /\ IF ~InWindow(ip)
     THEN /\ ~Rejected
          /\ rateLimitMap'[ip] = [count |-> 1, resetTime |-> now + RATE_WINDOW]
     ELSE IF windowAccepted[ip] < RATE_LIMIT
          THEN /\ ~Rejected
               /\ rateLimitMap'[ip] = [count |-> rateLimitMap[ip].count + 1,
                                       resetTime |-> rateLimitMap[ip].resetTime]
          ELSE /\ Rejected
               /\ rateLimitMap' = rateLimitMap

RateLimitPerIp ==
  /\ [](/\ DOMAIN windowAccepted = DOMAIN rateLimitMap
        /\ \A ip \in DOMAIN rateLimitMap :
             /\ windowAccepted[ip] \in 1..RATE_LIMIT
             /\ rateLimitMap[ip].count = windowAccepted[ip])
  /\ [](response # Null /\ Val(response).status = 429 =>
          ~Val(response).apiKeyRead /\ ~Val(response).upstreamCalled)
  /\ [][\A ip \in Ips : RequestOf(ip) => RequestOutcome(ip)]_vars

\* a request turned away at the very end of a full window, while the other
\* ip has a window of its own
RejectedAtEndOfFullWindow ==
  /\ response # Null
  /\ Val(response).status = 429
  /\ Val(response).ip \in DOMAIN rateLimitMap
  /\ rateLimitMap[Val(response).ip].count = RATE_LIMIT
  /\ now = rateLimitMap[Val(response).ip].resetTime
  /\ \E other \in DOMAIN rateLimitMap \ {Val(response).ip} : rateLimitMap[other].resetTime > now


\* ------------------------------------------------------------------------
\* C26: every explanation fetch that fetchExplanation starts leads to a state
\* in which its entry has loading = false and holds an error message or the
\* explanation streamed, whatever the answer: an error answered as JSON, a
\* stream with an error event, a stream ending without 'done', or a stream
\* ending in 'done'.
FetchUnderWay(key) ==
  /\ key \in DOMAIN explanations
  /\ explanations[key].loading
  /\ fetchState[key] \in {"awaiting", "reading"}

FetchSettled(key) ==
  /\ key \in DOMAIN explanations
  /\ ~explanations[key].loading
  /\ \/ explanations[key].error # Null
     \/ explanations[key].explanation = fullExplanation[key]

EveryFetchSettles == \A key \in Keys : FetchUnderWay(key) ~> FetchSettled(key)

====
